---- MODULE Spec2Model ----
(***************************************************************************)
(* TextWarp: the coordinate -> content engine of the game.                 *)
(*                                                                         *)
(* The model follows src/textwarp.py (TextAdventure: viewpoint, overlay    *)
(* `spaces`, glyph cache `char_cache`, persistence in spaces.json) and the  *)
(* plugins that read or erase cells (src/plugins/snake.py,                 *)
(* src/plugins/graph_classifier.py, src/plugins/polygraph_3d.py).          *)
(*                                                                         *)
(* Representation choices                                                  *)
(*   - a glyph is its character code (chr/ord are the code point itself);  *)
(*   - the string f"{x},{y}" of two integers is the pair <<x, y>>;         *)
(*   - hashlib.md5 is taken to be injective on those strings, a digest is  *)
(*     the record [md5 |-> <<x, y>>];                                      *)
(*   - a Python tuple (x, y) and the JSON array [x, y] json.dump writes    *)
(*     for it are different values: [t |-> "tuple"] and [t |-> "list"].    *)
(***************************************************************************)
EXTENDS Integers, Sequences, FiniteSets, TLC

VARIABLES
    world_x, world_y,          \* TextAdventure.world_x / world_y (viewpoint)
    in_menu,                   \* TextAdventure.in_menu
    spaces,                    \* TextAdventure.spaces: digest -> stored value
    file,                      \* spaces.json: whether it exists, and its content
    char_cache,                \* TextAdventure.char_cache: "x,y" -> glyph
    last_player,               \* <<last_player_x, last_player_y>>
    fuel, fuel_collected,      \* TextAdventure.fuel / fuel_collected
    active,                    \* plugin name -> Plugin.active
    original_get_char,         \* GraphClassifierPlugin.original_get_char
    get_char_at,               \* which function game.get_char_at is bound to
    snakes,                    \* SnakePlugin.snakes
    rng,                       \* state of the process-wide `random`
    draws,                     \* draws made from `random` since start-up
    gradients,                 \* engine -> gradients added after construction
    seed,                      \* the seed the engines were constructed with
    height_map,                \* Polygraph3DPlugin.height_map: "x,y" -> height
    poly_last,                 \* Polygraph3DPlugin.last_player_x / _y, or None
    min_height, max_height,    \* Polygraph3DPlugin height settings
    hash_seed,                 \* the process's string-hash randomisation
    lastErased,                \* history: the cell the last step erased, or NoCell
    erasedSinceClear,          \* history: a cell was erased while char_cache held entries
    lastHeight,                \* history: the get_height call the last step made
    lastGlyph,                 \* history: the classify call the last step made
    probe                      \* a function applied on its own: arguments and result

\* the height cache of the Polygraph3D plugin
polyCache == <<height_map, poly_last>>

polySettings == <<min_height, max_height>>

vars == <<world_x, world_y, in_menu, spaces, file, char_cache, last_player,
          fuel, fuel_collected, active, original_get_char, get_char_at,
          snakes, rng, draws, gradients, seed, height_map, poly_last,
          min_height, max_height, hash_seed, lastErased, erasedSinceClear,
          lastHeight, lastGlyph, probe>>

-----------------------------------------------------------------------------
(* Bounds of the model *)

\* terminal size reported by screen.getmaxyx()
max_x == 20
max_y == 30
\* overlay entries the model lets a session create
MaxErased == 2
\* glyph cache entries the model lets a session hold between two clears
MaxCached == 2
\* snakes the model lets the plugin spawn (the code stops at SnakeLimit)
MaxSnakes == 1
\* draws from `random` the model lets a process make after start-up
MaxDraws == 4
\* cells one handle_movement call moves the viewpoint by, per axis
MaxStep == 2

\* columns and rows of the cells the player visits and the renderer reads
Xs == {6}
Ys == {-2, 0}
Cells == Xs \X Ys
\* seeds the engines are built with
Seeds == {42, 7}

-----------------------------------------------------------------------------
(* Program constants *)

IdModulus == 127        \* location_id = (x + y * 1000) % 127
RowStride == 1000
Blank == 32             \* ' '
FuelGlyph == 38         \* '&'
EggGlyph == 48          \* '0'
AtGlyph == 64           \* '@'
SnakeLimit == 5         \* len(self.snakes) >= 5
InitialLength == 3      \* Snake.length
max_length == 15        \* Snake.max_length

\* spaces.json does not exist
Missing == [state |-> "missing", content |-> <<>>]
NoCell == <<>>
None == "None"
\* no function is applied on its own
NoProbe == <<>>
\* an attribute that has not been set
NoAttr == <<>>
\* no get_height call, no classify call
NoHeight == [kind |-> "none", cell |-> <<0, 0>>, value |-> 0, lo |-> 0, hi |-> 0,
             erased |-> FALSE]
NoGlyph == [kind |-> "none", engine |-> "none", cell |-> <<0, 0>>, char |-> 0]
Directions == {<<0, -1>>, <<1, 0>>, <<0, 1>>, <<-1, 0>>}
PluginNames == {"SnakePlugin", "GraphClassifierPlugin", "GUI3DPlugin", "Polygraph3DPlugin"}

-----------------------------------------------------------------------------
(* Keys, stored values and the file format *)

CacheKey(x, y) == <<x, y>>

get_space_key(x, y) == [md5 |-> <<x, y>>]

Tuple(x, y) == [t |-> "tuple", v |-> <<x, y>>]

\* json.dump: string keys are kept, a tuple is written as an array
JsonDump(d) == [k \in DOMAIN d |-> [t |-> "list", v |-> d[k].v]]

\* json.load: an array is read as a list
JsonLoad(content) == content

\* save_spaces: the file after the overlay d is written to it
save_spaces(d) == [state |-> "json", content |-> JsonDump(d)]

\* spaces.json exists and its text is not JSON
Corrupt == [state |-> "corrupt", content |-> <<>>]

\* json.load raises JSONDecodeError
JsonRaises(f) == f.state = "corrupt"

\* an exception that leaves load_spaces
Raised == [exception |-> "JSONDecodeError"]

\* a load_spaces without the try block
LoadSpacesUnguarded(f) ==
    IF f.state = "missing" THEN <<>>
    ELSE IF JsonRaises(f) THEN Raised
    ELSE JsonLoad(f.content)

\* load_spaces: the overlay read from the file f; the except branch leaves
\* the empty dict the method started with
load_spaces(f) ==
    IF f.state = "missing" THEN <<>>
    ELSE IF JsonRaises(f) THEN <<>>
    ELSE JsonLoad(f.content)

\* d[k] = v of a Python dict
Put(d, k, v) == [j \in DOMAIN d \cup {k} |-> IF j = k THEN v ELSE d[j]]

-----------------------------------------------------------------------------
(* Glyph reads *)

LocationId(x, y) == (x + y * RowStride) % IdModulus

\* a get_char_at that stores the generator's glyph in the cache even when
\* the overlay answered
GetCharAtCachingGenerated(c, sp, x, y) ==
    IF CacheKey(x, y) \in DOMAIN c
    THEN [char |-> c[CacheKey(x, y)], cache |-> c]
    ELSE [char |-> IF get_space_key(x, y) \in DOMAIN sp THEN Blank ELSE LocationId(x, y),
          cache |-> Put(c, CacheKey(x, y), LocationId(x, y))]

\* TextAdventure.get_char_at on cache c and overlay sp: the glyph returned
\* and the cache left behind
OriginalGetCharAt(c, sp, x, y) ==
    IF CacheKey(x, y) \in DOMAIN c
    THEN [char |-> c[CacheKey(x, y)], cache |-> c]
    ELSE LET ch == IF get_space_key(x, y) \in DOMAIN sp
                   THEN Blank
                   ELSE LocationId(x, y)
         IN [char |-> ch, cache |-> Put(c, CacheKey(x, y), ch)]

-----------------------------------------------------------------------------
(* Numbers.  Python floats are modelled in fixed point; every operator     *)
(* states its unit.  int() truncates toward zero, // and % floor.          *)

Abs(a) == IF a < 0 THEN -a ELSE a

Max(a, b) == IF a < b THEN b ELSE a

Min(a, b) == IF a < b THEN a ELSE b

\* int(a / b) for b > 0
TruncDiv(a, b) == IF a >= 0 THEN a \div b ELSE -((-a) \div b)

\* round half away from zero of a / b for b > 0
RoundDiv(a, b) == IF a >= 0 THEN (2 * a + b) \div (2 * b) ELSE -((2 * (-a) + b) \div (2 * b))

RECURSIVE PowMod(_, _, _)
PowMod(a, n, m) ==
    IF n = 0 THEN 1
    ELSE IF n % 2 = 1 THEN (PowMod(a, n - 1, m) * a) % m
    ELSE PowMod((a * a) % m, n \div 2, m)

RECURSIVE BitXor(_, _)
BitXor(a, b) ==
    IF a = 0 /\ b = 0 THEN 0
    ELSE (((a % 2) + (b % 2)) % 2) + 2 * BitXor(a \div 2, b \div 2)

\* floor(sqrt(n)) by Newton's iteration from above
RECURSIVE SqrtIter(_, _)
SqrtIter(n, r) ==
    LET q == (r + n \div r) \div 2
    IN IF q >= r THEN r ELSE SqrtIter(n, q)

ISqrt(n) == IF n <= 0 THEN 0 ELSE SqrtIter(n, n)

\* math.exp(-t) for t >= 0, argument and result in thousandths: the whole
\* part from a table of e^-k, the fractional part from the Taylor series
ExpNeg(t) ==
    LET whole == t \div 1000
        f == t % 1000
        t2 == (f * f) \div 2000
        t3 == (t2 * f) \div 3000
        t4 == (t3 * f) \div 4000
        t5 == (t4 * f) \div 5000
        frac == 1000 - f + t2 - t3 + t4 - t5
    IN IF whole >= 7 THEN 0
       ELSE (<<1000, 368, 135, 50, 18, 7, 2>>[whole + 1] * frac) \div 1000

RECURSIVE SeqSum(_)
SeqSum(q) == IF q = <<>> THEN 0 ELSE Head(q) + SeqSum(Tail(q))

-----------------------------------------------------------------------------
(* The process-wide random sources.  `random` (Mersenne Twister) and       *)
(* numpy.random are modelled as multiplicative congruential generators:    *)
(* a state, a seeding function and a step.  Only their being deterministic *)
(* functions of the seed and of the number of draws made matters here.     *)

RandModulus == 32749
RandMultiplier == 219
NpMultiplier == 1941

\* random.seed(s): the generator's state after seeding
RandSeed(s) == (s % (RandModulus - 1)) + 1

\* one draw advances the state
RandNext(r) == (r * RandMultiplier) % RandModulus

\* the state after n draws from state r
RandSkip(r, n) == (PowMod(RandMultiplier, n, RandModulus) * r) % RandModulus

\* random.randint(lo, hi) read off the state a draw leaves
RandInt(r, lo, hi) == lo + (r % (hi - lo + 1))

\* random.random() * 2 * pi read off the state a draw leaves, in quarter
\* turns: the model draws angles from {0, pi/2, pi, 3pi/2}, on which cos and
\* sin are exact
RandQuarter(r) == (4 * r) \div RandModulus

\* random.random() in thousandths
RandMilli(r) == (1000 * r) \div RandModulus

CosQuarter(q) == <<1, 0, -1, 0>>[q + 1]

SinQuarter(q) == <<0, 1, 0, -1>>[q + 1]

\* np.random.seed(s); the k-th value of np.random.randint(0, 2, ...)
NpBit(s, k) ==
    (((PowMod(NpMultiplier, k, RandModulus) * RandSeed(s)) % RandModulus) \div 64) % 2

-----------------------------------------------------------------------------
(* GraphClassifier.__init__: everything the constructor derives from the   *)
(* seed.  The constructor seeds `random`, then draws the region centres,   *)
(* the gradients of the grid -10..9 x -10..9, and the Voronoi points, in   *)
(* that order; nothing else draws in between, so each is a function of the *)
(* seed and of its position in the stream.                                 *)

DefaultSeed == 42
RegionCount == 10
RegionRange == 1000
GridLow == -10
GridHigh == 10             \* range(-10, 10): exclusive
VoronoiCount == 20
VoronoiRange == 500
RuleCount == 256

\* the state `random` is in after the n-th draw since random.seed(s)
DrawState(s, n) == RandSkip(RandSeed(s), n)

\* self.region_centers, per seed
RegionTable ==
    [s \in Seeds |->
        [i \in 1..RegionCount |->
            <<RandInt(DrawState(s, 2 * i - 1), -RegionRange, RegionRange),
              RandInt(DrawState(s, 2 * i), -RegionRange, RegionRange)>>]]

region_centers(s) == RegionTable[s]

RegionDraws == 2 * RegionCount

InGrid(i, j) == i >= GridLow /\ i < GridHigh /\ j >= GridLow /\ j < GridHigh

GridSide == GridHigh - GridLow

\* self.gradients as the constructor's double loop sets it, per seed
GradientTable ==
    [s \in Seeds |->
        [c \in (GridLow..(GridHigh - 1)) \X (GridLow..(GridHigh - 1)) |->
            LET k == (c[1] - GridLow) * GridSide + (c[2] - GridLow)
            IN <<CosQuarter(RandQuarter(DrawState(s, RegionDraws + 2 * k + 1))),
                 SinQuarter(RandQuarter(DrawState(s, RegionDraws + 2 * k + 2)))>>]]

PrecomputedGradient(s, i, j) == GradientTable[s][<<i, j>>]

GridDraws == 2 * GridSide * GridSide

\* self.ca_rules = np.random.randint(0, 2, 256), indexed from 0, per seed
RuleTable == [s \in Seeds |-> [idx \in 0..(RuleCount - 1) |-> NpBit(s, idx + 1)]]

ca_rules(s, idx) == RuleTable[s][idx]

\* self.voronoi_points, per seed
VoronoiTable ==
    [s \in Seeds |->
        [i \in 1..VoronoiCount |->
            <<RandInt(DrawState(s, RegionDraws + GridDraws + 2 * i - 1),
                      -VoronoiRange, VoronoiRange),
              RandInt(DrawState(s, RegionDraws + GridDraws + 2 * i),
                      -VoronoiRange, VoronoiRange)>>]]

voronoi_points(s) == VoronoiTable[s]

\* draws GraphClassifier.__init__ makes from `random`
ClassifierDraws == RegionDraws + GridDraws + 2 * VoronoiCount

-----------------------------------------------------------------------------
(* GraphClassifier: regions and the five glyph generators.                 *)
(* An engine is its seed s and the gradients `lazy` added after            *)
(* construction; a call that may add a gradient threads the pair           *)
(* st = [lazy, rng] of the engine's added gradients and the state of the   *)
(* process-wide `random`.                                                  *)

\* index (from 0) of the first centre at minimal distance; squared
\* distances order as the square roots the code compares
\* a scan that keeps the last of the nearest centres
RECURSIVE NearestLast(_, _, _, _, _, _)
NearestLast(pts, x, y, i, best, bestD) ==
    IF i > Len(pts) THEN best
    ELSE LET d == (x - pts[i][1]) * (x - pts[i][1]) + (y - pts[i][2]) * (y - pts[i][2])
         IN IF bestD < 0 \/ d <= bestD
            THEN NearestLast(pts, x, y, i + 1, i - 1, d)
            ELSE NearestLast(pts, x, y, i + 1, best, bestD)

RECURSIVE NearestFrom(_, _, _, _, _, _)
NearestFrom(pts, x, y, i, best, bestD) ==
    IF i > Len(pts) THEN best
    ELSE LET d == (x - pts[i][1]) * (x - pts[i][1]) + (y - pts[i][2]) * (y - pts[i][2])
         IN IF bestD < 0 \/ d < bestD
            THEN NearestFrom(pts, x, y, i + 1, i - 1, d)
            ELSE NearestFrom(pts, x, y, i + 1, best, bestD)

get_region(s, x, y) == NearestFrom(region_centers(s), x, y, 1, 0, -1)

\* the vector self.gradients holds for (ix, iy); the cell is present
GradientAt(s, lazy, ix, iy) ==
    IF InGrid(ix, iy) THEN PrecomputedGradient(s, ix, iy) ELSE lazy[<<ix, iy>>]

HasGradient(lazy, ix, iy) == InGrid(ix, iy) \/ <<ix, iy>> \in DOMAIN lazy

\* the lazy insertion of dot_grid_gradient: two draws from `random`
NewGradient(st, ix, iy) ==
    LET r1 == RandNext(st.rng)
        r2 == RandNext(r1)
    IN [lazy |-> Put(st.lazy, <<ix, iy>>,
                     <<CosQuarter(RandQuarter(r1)), SinQuarter(RandQuarter(r2))>>),
        rng |-> r2]

PerlinScale == 50

\* dot_grid_gradient at grid cell (ix, iy) for the point (x, y) / 50:
\* n is the dot product in fiftieths
DotProduct(s, st1, ix, iy, x, y) ==
    [n |-> (x - PerlinScale * ix) * GradientAt(s, st1.lazy, ix, iy)[1]
           + (y - PerlinScale * iy) * GradientAt(s, st1.lazy, ix, iy)[2],
     st |-> st1]

\* a dot_grid_gradient that draws a vector on every call outside the
\* constructor's grid
DotGridGradientRedrawing(s, st, ix, iy, x, y) ==
    DotProduct(s, IF InGrid(ix, iy) THEN st ELSE NewGradient(st, ix, iy),
               ix, iy, x, y)

dot_grid_gradient(s, st, ix, iy, x, y) ==
    DotProduct(s, IF HasGradient(st.lazy, ix, iy) THEN st ELSE NewGradient(st, ix, iy),
               ix, iy, x, y)

\* the weight (3 - 2w) w w of interpolate for w = k / 50, in thousandths
SmoothWeight(k) == ((3 * PerlinScale - 2 * k) * k * k) \div 125

\* interpolate(a0, a1, w)
interpolate(a0, a1, wm) == a0 + ((a1 - a0) * wm) \div 1000

\* the corner products gathered so far, and the product at (ix, iy) added
\* under the name k
AddCorner(acc, k, d) ==
    [n |-> [j \in DOMAIN acc.n \cup {k} |-> IF j = k THEN d.n * 200 ELSE acc.n[j]],
     st |-> d.st]

Corner(s, acc, k, ix, iy, x, y) ==
    AddCorner(acc, k, dot_grid_gradient(s, acc.st, ix, iy, x, y))

\* the record of the four products n, the weights and the state left
CornerRecord(acc, sx, sy) ==
    [n00 |-> acc.n["n00"], n10 |-> acc.n["n10"], n01 |-> acc.n["n01"],
     n11 |-> acc.n["n11"], sx |-> sx, sy |-> sy, st |-> acc.st]

\* the four corner products of the grid cell (x0, y0), in the order the
\* code evaluates them
CornersOf(s, st, x0, y0, x, y) ==
    CornerRecord(
        Corner(s,
            Corner(s,
                Corner(s,
                    Corner(s, [n |-> <<>>, st |-> st], "n00", x0, y0, x, y),
                    "n10", x0 + 1, y0, x, y),
                "n01", x0, y0 + 1, x, y),
            "n11", x0 + 1, y0 + 1, x, y),
        x - PerlinScale * x0, y - PerlinScale * y0)

PerlinCorners(s, st, x, y) ==
    CornersOf(s, st, x \div PerlinScale, y \div PerlinScale, x, y)

\* the noise value, in ten-thousandths, interpolated from the corners c:
\* both rows along x, then the two rows along y
PerlinValue(c) ==
    interpolate(interpolate(c.n00, c.n10, SmoothWeight(c.sx)),
                interpolate(c.n01, c.n11, SmoothWeight(c.sx)),
                SmoothWeight(c.sy))

\* int((value + 1) * 127.5) of the corners c, and the engine state left
PerlinGlyphOf(c) ==
    [value |-> TruncDiv((PerlinValue(c) + 10000) * 1275, 100000), st |-> c.st]

\* perlin_noise_classifier
perlin_noise_classifier(s, st, x, y) == PerlinGlyphOf(PerlinCorners(s, st, x, y))

\* math.sin of an angle in milliradians, in thousandths (Bhaskara's
\* rational approximation on a half period)
HalfTurn == 3142

SinHalf(t) ==
    LET p == (t * (HalfTurn - t)) \div 1000
    IN (16000 * p) \div (49348 - 4 * p)

Sin(mrad) ==
    LET t == mrad % (2 * HalfTurn)
    IN IF t <= HalfTurn THEN SinHalf(t) ELSE -SinHalf(t - HalfTurn)

\* math.cos
Cos(mrad) == Sin(mrad + HalfTurn \div 2)

\* sine_wave_classifier
sine_wave_classifier(x, y) ==
    LET value == 50 * (Sin(x * 100) + Sin((y * 1000) \div 15) + Sin((x + y) * 50)
                       + Sin(ISqrt((x * x + y * y) * 100) * 10))
    IN ((value + 200000) % 256000) \div 1000

\* the automaton's loop: `steps` applications of the rule table, whose
\* entries are 0 or 1; a run of several passes is its first half followed
\* by its second
RECURSIVE AutomatonRun(_, _, _)
AutomatonRun(s, state, steps) ==
    IF steps = 0 THEN state
    ELSE IF steps = 1
    THEN LET left == (state * 2) % RuleCount
             right == (state \div 2) % RuleCount
             idx == BitXor(BitXor(left, state), right) % RuleCount
         IN CASE ca_rules(s, idx) = 0 -> 0
              [] ca_rules(s, idx) = 1 -> 1
    ELSE LET half == AutomatonRun(s, state, steps \div 2)
         IN CASE half \in 0..(RuleCount - 1) ->
                     AutomatonRun(s, half, steps - steps \div 2)

\* an automaton seeded with x mod 256, the sign of x kept
AutomatonSigned(s, x, y) ==
    AutomatonRun(s, x % RuleCount, Abs(y) % 100)

\* cellular_automaton_classifier
cellular_automaton_classifier(s, x, y) ==
    AutomatonRun(s, Abs(x) % RuleCount, Abs(y) % 100)

\* voronoi_classifier
voronoi_classifier(s, x, y) ==
    NearestFrom(voronoi_points(s), x, y, 1, 0, -1) % 256

max_iteration == 20

\* the escape loop of fractal_classifier, z and c in thousandths
RECURSIVE FractalRun(_, _, _, _, _)
FractalRun(zr, zi, cr, ci, iteration) ==
    IF zr * zr + zi * zi < 4000000 /\ iteration < max_iteration
    THEN FractalRun(TruncDiv(zr * zr - zi * zi, 1000) + cr,
                    TruncDiv(2 * zr * zi, 1000) + ci,
                    cr, ci, iteration + 1)
    ELSE iteration

\* fractal_classifier: c = (x + iy) / 100
fractal_classifier(x, y) == (FractalRun(0, 0, 10 * x, 10 * y, 0) * 12) % 256

GlyphLow == 33
GlyphSpan == 94
ClassifierCount == 5       \* len(self.classifiers)

\* self.classifiers[kind](x, y): the value and the engine state left
Classifier(s, st, kind, x, y) ==
    CASE kind = 0 -> perlin_noise_classifier(s, st, x, y)
      [] kind = 1 -> [value |-> sine_wave_classifier(x, y), st |-> st]
      [] kind = 2 -> [value |-> cellular_automaton_classifier(s, x, y), st |-> st]
      [] kind = 3 -> [value |-> voronoi_classifier(s, x, y), st |-> st]
      [] OTHER -> [value |-> fractal_classifier(x, y), st |-> st]

\* a fold that keeps the sign of the raw value
PrintableTruncated(r) ==
    [char |-> GlyphLow + (IF r.value < 0 THEN -((-r.value) % GlyphSpan)
                          ELSE r.value % GlyphSpan),
     st |-> r.st]

\* 33 + (value % 94)
Printable(r) == [char |-> GlyphLow + (r.value % GlyphSpan), st |-> r.st]

\* GraphClassifier.classify: the glyph code and the engine state left
classify(s, st, x, y) ==
    Printable(Classifier(s, st, get_region(s, x, y) % ClassifierCount, x, y))

-----------------------------------------------------------------------------
(* Polygraph3DClassifier: the five height generators.  Heights are in      *)
(* thousandths.                                                            *)

HeightClassifierCount == 5     \* len(self.height_classifiers)

\* value * 20 of the corners c, where the second row is interpolated with
\* sy, and the engine state left
PerlinHeightOf(c) ==
    [raised |-> FALSE,
     value |-> 2 * interpolate(interpolate(c.n00, c.n10, SmoothWeight(c.sx)),
                               interpolate(c.n01, c.n11, SmoothWeight(c.sy)),
                               SmoothWeight(c.sy)),
     st |-> c.st]

\* perlin_height_classifier
perlin_height_classifier(s, st, x, y) == PerlinHeightOf(PerlinCorners(s, st, x, y))

\* sine_wave_height_classifier
sine_wave_height_classifier(x, y) ==
    LET value == 15 * (Sin(x * 25) + Sin((y * 100) \div 3))
                 + 20 * (Sin((x + y) * 20) + Sin(ISqrt((x * x + y * y) * 100) * 4))
    IN TruncDiv(3 * value, 10)

\* the two smallest of the distances (in tenths) from (x, y) to the points
\* pts[i..], given the two smallest <<a, b>> so far; distances.sort()
RECURSIVE TwoClosest(_, _, _, _, _)
TwoClosest(pts, x, y, i, ab) ==
    IF i > Len(pts) THEN ab
    ELSE LET d == ISqrt(((x - pts[i][1]) * (x - pts[i][1])
                         + (y - pts[i][2]) * (y - pts[i][2])) * 100)
         IN TwoClosest(pts, x, y, i + 1,
                       IF ab[1] < 0 \/ d < ab[1] THEN <<d, ab[1]>>
                       ELSE IF ab[2] < 0 \/ d < ab[2] THEN <<ab[1], d>>
                       ELSE ab)

\* voronoi_height_classifier
voronoi_height_classifier(s, x, y) ==
    LET ab == TwoClosest(voronoi_points(s), x, y, 1, <<-1, -1>>)
    IN 30 * ExpNeg(Abs(ab[2] - ab[1]) * 20) - 15000

\* fractal_height_classifier: c = (x + iy) / 250
fractal_height_classifier(x, y) ==
    LET iteration == FractalRun(0, 0, 4 * x, 4 * y, 0)
    IN IF iteration < max_iteration
       THEN (iteration * 30000) \div max_iteration - 15000
       ELSE -8000

\* Polygraph3DClassifier.__init__: self.terrain_params, drawn from `random`
\* right after the GraphClassifier constructor's draws
MountainCount == 15
ValleyCount == 8
PlateauCount == 5
RidgeCount == 5
CanyonCount == 5

\* the state `random` is in after the n-th draw of the terrain parameters
TerrainState(s, n) == DrawState(s, ClassifierDraws + n)

\* random.random() * k + b in thousandths, read off the state a draw leaves
RandScaled(r, k, b) == RandMilli(r) * k + 1000 * b

\* a mountain or a valley: (x, y, size, factor), four draws each
Bell(s, base, i, k, b) ==
    [x |-> RandInt(TerrainState(s, base + 4 * i - 3), -500, 500),
     y |-> RandInt(TerrainState(s, base + 4 * i - 2), -500, 500),
     size |-> RandInt(TerrainState(s, base + 4 * i - 1), 50, 200),
     factor |-> RandScaled(TerrainState(s, base + 4 * i), k, b)]

\* a plateau: (x, y, size, height_factor, sharpness), five draws each
Plateau(s, base, i) ==
    [x |-> RandInt(TerrainState(s, base + 5 * i - 4), -500, 500),
     y |-> RandInt(TerrainState(s, base + 5 * i - 3), -500, 500),
     size |-> RandInt(TerrainState(s, base + 5 * i - 2), 100, 300),
     factor |-> RandScaled(TerrainState(s, base + 5 * i - 1), 5, 3),
     sharpness |-> RandScaled(TerrainState(s, base + 5 * i), 5, 2)]

\* a ridge or a canyon: (x, y, length, width, angle, factor), six draws each
Line(s, base, i, k, b) ==
    [x |-> RandInt(TerrainState(s, base + 6 * i - 5), -500, 500),
     y |-> RandInt(TerrainState(s, base + 6 * i - 4), -500, 500),
     length |-> RandInt(TerrainState(s, base + 6 * i - 3), 100, 500),
     width |-> RandInt(TerrainState(s, base + 6 * i - 2), 10, 50),
     angle |-> RandInt(TerrainState(s, base + 6 * i - 1), 0, 360),
     factor |-> RandScaled(TerrainState(s, base + 6 * i), k, b)]

MountainDraws == 4 * MountainCount

ValleyDraws == 4 * ValleyCount

PlateauDraws == 5 * PlateauCount

RidgeDraws == 6 * RidgeCount

TerrainTable ==
    [s \in Seeds |->
        [mountains |-> [i \in 1..MountainCount |-> Bell(s, 0, i, 8, 8)],
         valleys |-> [i \in 1..ValleyCount |-> Bell(s, MountainDraws, i, 6, 4)],
         plateaus |-> [i \in 1..PlateauCount |->
                          Plateau(s, MountainDraws + ValleyDraws, i)],
         ridges |-> [i \in 1..RidgeCount |->
                        Line(s, MountainDraws + ValleyDraws + PlateauDraws, i, 8, 8)],
         canyons |-> [i \in 1..CanyonCount |->
                         Line(s, MountainDraws + ValleyDraws + PlateauDraws + RidgeDraws,
                              i, 6, 4)]]]

terrain_params(s) == TerrainTable[s]

Dist2(x, y, px, py) == (x - px) * (x - px) + (y - py) * (y - py)

\* factor * exp(-dist^2 / (1.5 size^2)) when dist < 3 size, else nothing
BellTerm(m, x, y) ==
    LET d2 == Dist2(x, y, m.x, m.y)
    IN IF d2 < 9 * m.size * m.size
       THEN (m.factor * ExpNeg((2000 * d2) \div (3 * m.size * m.size))) \div 1000
       ELSE 0

\* the largest argument math.exp accepts, in thousandths
ExpLimit == 709782

\* height_factor / (1 + exp(sharpness * 1.5 * (dist - size))) when
\* dist < 2 size; math.exp raises OverflowError past ExpLimit
PlateauTerm(p, x, y) ==
    LET d2 == Dist2(x, y, p.x, p.y)
        arg == TruncDiv(p.sharpness * 15 * (ISqrt(d2 * 100) - 10 * p.size), 100)
    IN IF d2 >= 4 * p.size * p.size THEN [raised |-> FALSE, v |-> 0]
       ELSE IF arg > ExpLimit THEN [raised |-> TRUE, v |-> 0]
       ELSE IF arg >= 0
            THEN [raised |-> FALSE,
                  v |-> (p.factor * ExpNeg(arg)) \div (1000 + ExpNeg(arg))]
            ELSE [raised |-> FALSE,
                  v |-> (p.factor * 1000) \div (1000 + ExpNeg(-arg))]

\* math.radians(angle) in thousandths
Radians(angle) == (angle * 31416) \div 1800

\* factor * exp(-dist^2 / (0.5 width^2)) when the point, rotated about the
\* line's centre, is within half the length and within the width
LineTerm(l, x, y) ==
    LET cos_angle == Cos(Radians(l.angle))
        sin_angle == Sin(Radians(l.angle))
        tx == x - l.x
        ty == y - l.y
        along == tx * cos_angle + ty * sin_angle
        dist == Abs(ty * cos_angle - tx * sin_angle)
        tenths == dist \div 100
    IN IF 2 * Abs(along) < 1000 * l.length /\ dist < 1000 * l.width
       THEN (l.factor * ExpNeg((20 * tenths * tenths) \div (l.width * l.width))) \div 1000
       ELSE 0

\* terrain_height_classifier: the sum of the features, the texture term,
\* clamped to [-10, 10]; raised when math.exp overflowed
terrain_height_classifier(s, x, y) ==
    LET t == terrain_params(s)
        plateaus == [i \in 1..PlateauCount |-> PlateauTerm(t.plateaus[i], x, y)]
        height == SeqSum([i \in 1..MountainCount |-> BellTerm(t.mountains[i], x, y)])
                  - SeqSum([i \in 1..ValleyCount |-> BellTerm(t.valleys[i], x, y)])
                  + SeqSum([i \in 1..PlateauCount |-> plateaus[i].v])
                  + SeqSum([i \in 1..RidgeCount |-> LineTerm(t.ridges[i], x, y)])
                  - SeqSum([i \in 1..CanyonCount |-> LineTerm(t.canyons[i], x, y)])
                  + TruncDiv(Sin(x * 125) * Cos(y * 125), 1000)
    IN [raised |-> \E i \in 1..PlateauCount : plateaus[i].raised,
        value |-> Max(-10000, Min(10000, height))]

\* a result with the engine state st it leaves
Leaving(r, st) == [raised |-> r.raised, value |-> r.value, st |-> st]

\* self.height_classifiers[kind](x, y)
HeightClassifier(s, st, kind, x, y) ==
    CASE kind = 0 -> perlin_height_classifier(s, st, x, y)
      [] kind = 1 ->
           [raised |-> FALSE, value |-> sine_wave_height_classifier(x, y), st |-> st]
      [] kind = 2 ->
           [raised |-> FALSE, value |-> voronoi_height_classifier(s, x, y), st |-> st]
      [] kind = 3 ->
           [raised |-> FALSE, value |-> fractal_height_classifier(x, y), st |-> st]
      [] OTHER -> Leaving(terrain_height_classifier(s, x, y), st)

\* Polygraph3DClassifier.get_height: the raw height, the engine state left,
\* and whether the call raised
raw_height(s, st, x, y) ==
    HeightClassifier(s, st, get_region(s, x, y) % HeightClassifierCount, x, y)

-----------------------------------------------------------------------------
(* The game: TextAdventure and the plugins' hooks into it                  *)

Engines == {"gc", "poly"}

\* the engine state a classify call of GraphClassifierPlugin starts from
GcState == [lazy |-> gradients["gc"], rng |-> rng]

\* new_get_char_at of GraphClassifierPlugin.activate
CharOf(r) == [char |-> r.char, st |-> r.st, classified |-> TRUE]

new_get_char_at(sp, st, x, y) ==
    IF get_space_key(x, y) \in DOMAIN sp
    THEN [char |-> Blank, st |-> st, classified |-> FALSE]
    ELSE CharOf(classify(seed, st, x, y))

\* self.get_char_at(x, y) as currently bound: glyph, cache and engine
\* state, and whether classify was called
FromClassifier(r, c) ==
    [char |-> r.char, cache |-> c, st |-> r.st, classified |-> r.classified]

FromOriginal(r, st) ==
    [char |-> r.char, cache |-> r.cache, st |-> st, classified |-> FALSE]

GameGetCharAt(bound, c, sp, st, x, y) ==
    IF bound = "classifier"
    THEN FromClassifier(new_get_char_at(sp, st, x, y), c)
    ELSE FromOriginal(OriginalGetCharAt(c, sp, x, y), st)

\* history: what the step's get_char_at call at (x, y) asked of classify
Classified(r, x, y) ==
    lastGlyph' = IF r.classified
                 THEN [kind |-> "value", engine |-> "gc", cell |-> <<x, y>>,
                       char |-> r.char]
                 ELSE NoGlyph

NoClassify == lastGlyph' = NoGlyph

NoHeightRead == lastHeight' = NoHeight

\* an update_char_cache that records the position and keeps the glyphs
UpdateCharCacheKeeping(c, last, x, y) ==
    IF x # last[1] \/ y # last[2]
    THEN [cache |-> c, last |-> <<x, y>>]
    ELSE [cache |-> c, last |-> last]

\* update_char_cache: cache and last position after the call
update_char_cache(c, last, x, y) ==
    IF x # last[1] \/ y # last[2]
    THEN [cache |-> <<>>, last |-> <<x, y>>]
    ELSE [cache |-> c, last |-> last]

\* a check_for_fuel that collects whatever glyph the player stands on
FuelAtAnyGlyph(r, sp, f, x, y) ==
    IF get_space_key(x, y) \notin fuel_collected
    THEN [cache |-> r.cache, st |-> r.st, collected |-> TRUE,
          char |-> r.char, classified |-> r.classified,
          spaces |-> Put(sp, get_space_key(x, y), Tuple(x, y)),
          file |-> save_spaces(Put(sp, get_space_key(x, y), Tuple(x, y)))]
    ELSE [cache |-> r.cache, st |-> r.st, collected |-> FALSE,
          char |-> r.char, classified |-> r.classified,
          spaces |-> sp, file |-> f]

\* check_for_fuel at (x, y)
\* the rest of check_for_fuel once the glyph r at (x, y) is read
FuelAt(r, sp, f, x, y) ==
    IF r.char = FuelGlyph /\ get_space_key(x, y) \notin fuel_collected
    THEN [cache |-> r.cache, st |-> r.st, collected |-> TRUE,
          char |-> r.char, classified |-> r.classified,
          spaces |-> Put(sp, get_space_key(x, y), Tuple(x, y)),
          file |-> save_spaces(Put(sp, get_space_key(x, y), Tuple(x, y)))]
    ELSE [cache |-> r.cache, st |-> r.st, collected |-> FALSE,
          char |-> r.char, classified |-> r.classified,
          spaces |-> sp, file |-> f]

check_for_fuel(bound, c, sp, f, st, x, y) ==
    FuelAt(GameGetCharAt(bound, c, sp, st, x, y), sp, f, x, y)

\* hash(key) of the string key "x,y": CPython keys its string hash with a
\* value drawn when the process starts (hs); the result is taken mod 1000
StrHash(hs, x, y) == ((x * 31 + y * 1009 + 7) * (2 * hs + 1) + 7919 * hs) % 1000

\* variation = (hash(key) % 1000) / 2000.0 - 0.25, in thousandths
Variation(hs, x, y) == StrHash(hs, x, y) \div 2 - 250

\* the engine state a call on Polygraph3DPlugin.classifier starts from
PolyState == [lazy |-> gradients["poly"], rng |-> rng]

\* Polygraph3DPlugin.get_height on the cache hm with settings lo, hi: the
\* height, the cache and the engine state left, whether the call raised
\* the height stored under the key of (x, y) and returned
Stored(height, hm, st, x, y) ==
    [raised |-> FALSE, value |-> height, map |-> Put(hm, CacheKey(x, y), height), st |-> st]

\* min_height + normalized * (max_height - min_height) + variation of the
\* raw height, in thousandths
Scaled(raw, hm, hs, lo, hi, x, y) ==
    IF raw.raised
    THEN [raised |-> TRUE, value |-> 0, map |-> hm, st |-> raw.st]
    ELSE Stored(1000 * lo + ((raw.value + 10000) * (hi - lo)) \div 20
                + Variation(hs, x, y),
                hm, raw.st, x, y)

get_height(hm, st, hs, lo, hi, x, y) ==
    IF CacheKey(x, y) \in DOMAIN hm
    THEN [raised |-> FALSE, value |-> hm[CacheKey(x, y)], map |-> hm, st |-> st]
    ELSE Scaled(raw_height(seed, st, x, y), hm, hs, lo, hi, x, y)

HeightThreshold == 10

\* an update_char_cache that records the viewpoint and keeps the heights
PolyUpdateKeeping(hm, last, x, y) ==
    IF last # NoAttr /\ (Abs(x - last[1]) > HeightThreshold
                         \/ Abs(y - last[2]) > HeightThreshold)
    THEN [map |-> hm, last |-> <<x, y>>]
    ELSE IF last = NoAttr
         THEN [map |-> hm, last |-> <<x, y>>]
         ELSE [map |-> hm, last |-> last]

\* Polygraph3DPlugin.update_char_cache with the viewpoint at (x, y)
PolyUpdateCharCache(hm, last, x, y) ==
    IF last # NoAttr /\ (Abs(x - last[1]) > HeightThreshold
                         \/ Abs(y - last[2]) > HeightThreshold)
    THEN [map |-> <<>>, last |-> <<x, y>>]
    ELSE IF last = NoAttr
         THEN [map |-> hm, last |-> <<x, y>>]
         ELSE [map |-> hm, last |-> last]

WithinErased(sp) == Cardinality(DOMAIN sp) <= MaxErased

WithinCached(c) == Cardinality(DOMAIN c) <= MaxCached

\* history: an erase made since char_cache was last empty
Track ==
    erasedSinceClear' = IF DOMAIN char_cache' = {} THEN FALSE
                        ELSE IF lastErased' # NoCell THEN TRUE
                        ELSE erasedSinceClear

\* handle_input, key == ord(' ')
HandleInputSpace ==
    /\ ~in_menu
    /\ LET sp1 == Put(spaces, get_space_key(world_x, world_y), Tuple(world_x, world_y))
       IN /\ WithinErased(sp1)
          /\ spaces' = sp1
          /\ file' = save_spaces(sp1)
    /\ lastErased' = <<world_x, world_y>>
    /\ UNCHANGED <<world_x, world_y, in_menu, char_cache, last_player, fuel,
                   fuel_collected, active, original_get_char, get_char_at, snakes,
                   rng, draws, gradients>>
    /\ UNCHANGED <<seed, polyCache, polySettings, hash_seed, probe>>
    /\ NoHeightRead
    /\ NoClassify
    /\ Track

\* handle_input, key == 27
HandleInputEsc ==
    /\ ~in_menu
    /\ in_menu' = TRUE
    /\ lastErased' = NoCell
    /\ UNCHANGED <<world_x, world_y, spaces, file, char_cache, last_player, fuel,
                   fuel_collected, active, original_get_char, get_char_at, snakes,
                   rng, draws, gradients>>
    /\ UNCHANGED <<seed, polyCache, polySettings, hash_seed, probe>>
    /\ NoHeightRead
    /\ NoClassify
    /\ Track

\* handle_menu_selection, "Resume Game"
MenuResume ==
    /\ in_menu
    /\ in_menu' = FALSE
    /\ lastErased' = NoCell
    /\ UNCHANGED <<world_x, world_y, spaces, file, char_cache, last_player, fuel,
                   fuel_collected, active, original_get_char, get_char_at, snakes,
                   rng, draws, gradients>>
    /\ UNCHANGED <<seed, polyCache, polySettings, hash_seed, probe>>
    /\ NoHeightRead
    /\ NoClassify
    /\ Track

\* handle_menu_selection on the plugin menu: GraphClassifierPlugin
\* activate / deactivate swap game.get_char_at
ToggleGraphClassifier ==
    /\ in_menu
    /\ IF active["GraphClassifierPlugin"]
       THEN /\ get_char_at' = IF original_get_char # None
                              THEN original_get_char ELSE get_char_at
            /\ original_get_char' = None
       ELSE /\ get_char_at' = IF original_get_char = None
                              THEN "classifier" ELSE get_char_at
            /\ original_get_char' = IF original_get_char = None
                                    THEN get_char_at ELSE original_get_char
    /\ active' = [active EXCEPT !["GraphClassifierPlugin"] = ~@]
    /\ lastErased' = NoCell
    /\ UNCHANGED <<world_x, world_y, in_menu, spaces, file, char_cache, last_player,
                   fuel, fuel_collected, snakes, rng, draws, gradients>>
    /\ UNCHANGED <<seed, polyCache, polySettings, hash_seed, probe>>
    /\ NoHeightRead
    /\ NoClassify
    /\ Track

\* handle_menu_selection on the plugin menu: SnakePlugin
ToggleSnake ==
    /\ in_menu
    /\ active' = [active EXCEPT !["SnakePlugin"] = ~@]
    /\ lastErased' = NoCell
    /\ UNCHANGED <<world_x, world_y, in_menu, spaces, file, char_cache, last_player,
                   fuel, fuel_collected, original_get_char, get_char_at, snakes,
                   rng, draws, gradients>>
    /\ UNCHANGED <<seed, polyCache, polySettings, hash_seed, probe>>
    /\ NoHeightRead
    /\ NoClassify
    /\ Track

\* handle_movement with the whole-cell step (dx_int, dy_int), (0, 0) when
\* nothing moved; then Polygraph3DPlugin.update if that plugin is active
\* the move to (x, y): f is what check_for_fuel found there, u what
\* update_char_cache leaves
MovedTo(f, u, x, y) ==
    /\ WithinErased(f.spaces)
    /\ spaces' = f.spaces
    /\ file' = f.file
    /\ fuel' = IF f.collected THEN fuel + 1 ELSE fuel
    /\ fuel_collected' = IF f.collected
                         THEN fuel_collected \cup {get_space_key(x, y)}
                         ELSE fuel_collected
    /\ char_cache' = u.cache
    /\ last_player' = u.last
    /\ gradients' = [gradients EXCEPT !["gc"] = f.st.lazy]
    /\ rng' = f.st.rng
    /\ lastErased' = IF f.collected THEN <<x, y>> ELSE NoCell
    /\ Classified(f, x, y)

FuelChecked(f, x, y) == MovedTo(f, update_char_cache(f.cache, last_player, x, y), x, y)

\* plugin.update(dt) of Polygraph3DPlugin: p is what update_char_cache leaves
PolyUpdated(p) ==
    IF active["Polygraph3DPlugin"]
    THEN height_map' = p.map /\ poly_last' = p.last
    ELSE UNCHANGED polyCache

HandleMovement(dx_int, dy_int) ==
    /\ ~in_menu
    /\ world_x' = world_x + dx_int
    /\ world_y' = world_y + dy_int
    /\ IF dx_int # 0 \/ dy_int # 0
       THEN FuelChecked(check_for_fuel(get_char_at, char_cache, spaces, file, GcState,
                                       world_x + dx_int, world_y + dy_int),
                        world_x + dx_int, world_y + dy_int)
       ELSE /\ UNCHANGED <<spaces, file, fuel, fuel_collected, char_cache,
                           last_player, gradients, rng>>
            /\ lastErased' = NoCell
            /\ NoClassify
    /\ PolyUpdated(PolyUpdateCharCache(height_map, poly_last,
                                       world_x + dx_int, world_y + dy_int))
    /\ UNCHANGED <<in_menu, active, original_get_char, get_char_at, snakes, draws,
                   seed, polySettings, hash_seed, probe>>
    /\ NoHeightRead
    /\ Track

\* the cell (x, y) is inside the area render_game_world draws
Rendered(x, y) ==
    LET col == x - world_x + max_x \div 2
        row == y - world_y + max_y \div 2
    IN col >= 3 /\ col < max_x - 2 /\ row >= 6 /\ row < max_y - 12

\* render_game_world: the read of one cell of the visible area
Drawn(r, x, y) ==
    /\ WithinCached(r.cache)
    /\ char_cache' = r.cache
    /\ gradients' = [gradients EXCEPT !["gc"] = r.st.lazy]
    /\ rng' = r.st.rng
    /\ Classified(r, x, y)

RenderRead(x, y) ==
    /\ Rendered(x, y)
    /\ Drawn(GameGetCharAt(get_char_at, char_cache, spaces, GcState, x, y), x, y)
    /\ lastErased' = NoCell
    /\ UNCHANGED <<world_x, world_y, in_menu, spaces, file, last_player, fuel,
                   fuel_collected, active, original_get_char, get_char_at, snakes,
                   draws>>
    /\ UNCHANGED <<seed, polyCache, polySettings, hash_seed, probe>>
    /\ NoHeightRead
    /\ Track

-----------------------------------------------------------------------------
(* SnakePlugin *)

DirList == <<<<0, -1>>, <<1, 0>>, <<0, 1>>, <<-1, 0>>>>

\* random.choice(seq) read off the state a draw leaves
RandChoice(r, seq) == seq[(r % Len(seq)) + 1]

\* the cells of the screen in the order try_spawn_snake scans them
ScreenCells == [k \in 1..(max_x * max_y) |-> <<(k - 1) % max_x, (k - 1) \div max_x>>]

\* the cells the viewpoint visits while a snake feeds: the egg at (1, 5) and
\* two viewpoints whose screens hold it
EggCells == {<<1, 5>>, <<5, 0>>, <<6, 1>>}

\* the steps between them
EggSteps == {<<c[1] - d[1], c[2] - d[2]>> : c, d \in EggCells} \ {<<0, 0>>}

\* at_positions of try_spawn_snake with the viewpoint at w: the
\* screen-relative positions showing '@'
AtTable ==
    [w \in Cells \cup EggCells |->
        LET IsAt(c) == LocationId(c[1] - max_x \div 2 + w[1],
                                  c[2] - max_y \div 2 + w[2]) = AtGlyph
            hits == SelectSeq(ScreenCells, IsAt)
        IN [k \in 1..Len(hits) |->
               <<hits[k][1] - max_x \div 2, hits[k][2] - max_y \div 2>>]]

at_positions == AtTable[<<world_x, world_y>>]

\* SnakePlugin.try_spawn_snake, reached from SnakePlugin.update when the
\* spawn timer runs out
TrySpawnSnake ==
    /\ active["SnakePlugin"]
    /\ Len(snakes) < SnakeLimit
    /\ Len(snakes) < MaxSnakes
    /\ Len(at_positions) > 0
    /\ draws + 2 <= MaxDraws
    /\ LET r1 == RandNext(rng)
           r2 == RandNext(r1)
           pos == RandChoice(r1, at_positions)
           wx == pos[1] + world_x
           wy == pos[2] + world_y
           sp1 == Put(spaces, get_space_key(wx, wy), Tuple(wx, wy))
       IN /\ WithinErased(sp1)
          /\ snakes' = Append(snakes, [head |-> pos, length |-> InitialLength,
                                       direction |-> RandChoice(r2, DirList)])
          /\ spaces' = sp1
          /\ rng' = r2
          /\ draws' = draws + 2
          /\ lastErased' = <<wx, wy>>
    /\ UNCHANGED <<world_x, world_y, in_menu, file, char_cache, last_player, fuel,
                   fuel_collected, active, original_get_char, get_char_at, gradients>>
    /\ UNCHANGED <<seed, polyCache, polySettings, hash_seed, probe>>
    /\ NoHeightRead
    /\ NoClassify
    /\ Track

\* Snake.update of snake i when its move timer has run out
SnakeUpdate(i) ==
    /\ active["SnakePlugin"]
    /\ i \in 1..Len(snakes)
    /\ LET r1 == RandNext(rng)
           turn == RandMilli(r1) < 300
           r2 == IF turn THEN RandNext(r1) ELSE r1
           dir == IF turn THEN RandChoice(r2, DirList) ELSE snakes[i].direction
           new_head == <<snakes[i].head[1] + dir[1], snakes[i].head[2] + dir[2]>>
           wx == new_head[1] + world_x
           wy == new_head[2] + world_y
           egg == LocationId(wx, wy) = EggGlyph
           sp1 == IF egg THEN Put(spaces, get_space_key(wx, wy), Tuple(wx, wy)) ELSE spaces
           len1 == IF egg /\ snakes[i].length < max_length
                   THEN snakes[i].length + 1 ELSE snakes[i].length
       IN /\ draws + (IF turn THEN 2 ELSE 1) <= MaxDraws
          /\ WithinErased(sp1)
          /\ snakes' = [snakes EXCEPT ![i] = [head |-> new_head, length |-> len1,
                                              direction |-> dir]]
          /\ spaces' = sp1
          /\ file' = IF egg THEN save_spaces(sp1) ELSE file
          /\ rng' = r2
          /\ draws' = draws + (IF turn THEN 2 ELSE 1)
          /\ lastErased' = IF egg THEN <<wx, wy>> ELSE NoCell
    /\ UNCHANGED <<world_x, world_y, in_menu, char_cache, last_player, fuel,
                   fuel_collected, active, original_get_char, get_char_at, gradients>>
    /\ UNCHANGED <<seed, polyCache, polySettings, hash_seed, probe>>
    /\ NoHeightRead
    /\ NoClassify
    /\ Track

\* a draw made elsewhere in the process (AudioPlugin's analysis thread)
OtherDraw ==
    /\ draws + 1 <= MaxDraws
    /\ rng' = RandNext(rng)
    /\ draws' = draws + 1
    /\ lastErased' = NoCell
    /\ UNCHANGED <<world_x, world_y, in_menu, spaces, file, char_cache, last_player,
                   fuel, fuel_collected, active, original_get_char, get_char_at,
                   snakes, gradients>>
    /\ UNCHANGED <<seed, polyCache, polySettings, hash_seed, probe>>
    /\ NoHeightRead
    /\ NoClassify
    /\ Track

-----------------------------------------------------------------------------
(* The 3D view: GUI3DPlugin.update_character_map and the method            *)
(* Polygraph3DPlugin.integrate_with_gui3d puts in its place.  Both loop    *)
(* over the cells of the screen; an action is the loop body for one cell.  *)

\* history: the get_height call on (x, y) and its result g
HeightRead(g, x, y) ==
    lastHeight' = [kind |-> IF g.raised THEN "raised" ELSE "value",
                   cell |-> <<x, y>>, value |-> g.value,
                   lo |-> min_height, hi |-> max_height,
                   erased |-> get_space_key(x, y) \in DOMAIN spaces]

\* the world cell (x, y) is on the screen
OnScreen(x, y) ==
    LET col == x - world_x + max_x \div 2
        row == y - world_y + max_y \div 2
    IN col >= 0 /\ col < max_x /\ row >= 0 /\ row < max_y

\* the loop body once the glyph r, read at (cx, cy), is not blank: g is
\* what get_height of the world cell (x, y) returned
HeightTaken(r, g, x, y) ==
    /\ gradients' = [gradients EXCEPT !["gc"] = r.st.lazy, !["poly"] = g.st.lazy]
    /\ rng' = g.st.rng
    /\ height_map' = g.map
    /\ HeightRead(g, x, y)

\* the loop body for the world cell (x, y) whose glyph r was read at
\* (cx, cy): a blank is skipped, else the height is read (and cached)
MapCell(r, cx, cy, x, y) ==
    /\ WithinCached(r.cache)
    /\ char_cache' = r.cache
    /\ Classified(r, cx, cy)
    /\ IF r.char = Blank
       THEN /\ gradients' = [gradients EXCEPT !["gc"] = r.st.lazy]
            /\ rng' = r.st.rng
            /\ UNCHANGED height_map
            /\ NoHeightRead
       ELSE HeightTaken(r, get_height(height_map,
                                      [lazy |-> gradients["poly"], rng |-> r.st.rng],
                                      hash_seed, min_height, max_height, x, y),
                        x, y)

\* new_update_character_map, first loop, at world cell (x, y): the glyph is
\* read at the world cell
PolygraphMapCell(x, y) ==
    /\ active["GUI3DPlugin"]
    /\ active["Polygraph3DPlugin"]
    /\ OnScreen(x, y)
    /\ MapCell(GameGetCharAt(get_char_at, char_cache, spaces, GcState, x, y), x, y, x, y)
    /\ lastErased' = NoCell
    /\ UNCHANGED <<world_x, world_y, in_menu, spaces, file, last_player, fuel,
                   fuel_collected, active, original_get_char, get_char_at, snakes,
                   draws, seed, poly_last, polySettings, hash_seed, probe>>
    /\ Track

\* GUI3DPlugin.update_character_map at world cell (x, y): the glyph is read
\* at the cell's screen coordinates, and unless it is blank the height of
\* the world cell is asked of the plugin that has get_height
Gui3dMapCell(x, y) ==
    /\ active["GUI3DPlugin"]
    /\ ~active["Polygraph3DPlugin"]
    /\ OnScreen(x, y)
    /\ MapCell(GameGetCharAt(get_char_at, char_cache, spaces, GcState,
                             x - world_x + max_x \div 2, y - world_y + max_y \div 2),
               x - world_x + max_x \div 2, y - world_y + max_y \div 2, x, y)
    /\ lastErased' = NoCell
    /\ UNCHANGED <<world_x, world_y, in_menu, spaces, file, last_player, fuel,
                   fuel_collected, active, original_get_char, get_char_at, snakes,
                   draws, seed, poly_last, polySettings, hash_seed, probe>>
    /\ Track

\* handle_menu_selection on the plugin menu: Polygraph3DPlugin.  activate
\* also activates the 3D view when it is not active
TogglePolygraph ==
    /\ in_menu
    /\ active' = IF active["Polygraph3DPlugin"]
                 THEN [active EXCEPT !["Polygraph3DPlugin"] = FALSE]
                 ELSE [active EXCEPT !["Polygraph3DPlugin"] = TRUE,
                                     !["GUI3DPlugin"] = TRUE]
    /\ lastErased' = NoCell
    /\ UNCHANGED <<world_x, world_y, in_menu, spaces, file, char_cache, last_player,
                   fuel, fuel_collected, original_get_char, get_char_at, snakes,
                   rng, draws, gradients, seed, polyCache, polySettings, hash_seed, probe>>
    /\ NoHeightRead
    /\ NoClassify
    /\ Track

\* show_settings_menu, Enter: the settings are applied and the height cache
\* is cleared
ApplyHeightSettings(lo, hi) ==
    /\ in_menu
    /\ min_height' = lo
    /\ max_height' = hi
    /\ height_map' = <<>>
    /\ lastErased' = NoCell
    /\ UNCHANGED <<world_x, world_y, in_menu, spaces, file, char_cache, last_player,
                   fuel, fuel_collected, active, original_get_char, get_char_at,
                   snakes, rng, draws, gradients, seed, poly_last, hash_seed, probe>>
    /\ NoHeightRead
    /\ NoClassify
    /\ Track

-----------------------------------------------------------------------------
(* Start-up *)

\* draws Polygraph3DClassifier.__init__ makes for terrain_params
TerrainDraws == MountainDraws + ValleyDraws + PlateauDraws + RidgeDraws + 6 * CanyonCount

\* `random` once initialize_plugins has built both classifiers: the last
\* one built, Polygraph3DClassifier, seeds it anew
StartRng == DrawState(DefaultSeed, ClassifierDraws + TerrainDraws)

DefaultMinHeight == -10
DefaultMaxHeight == 10

\* TextAdventure.__init__ and load_plugin_config with the configuration
\* cfg, the overlay file f, the viewpoint (x, y) of last_location.json, the
\* height settings lo, hi of polygraph_3d_settings.json, in a process whose
\* string hash is keyed by hs
Start(cfg, f, x, y, lo, hi, hs) ==
    /\ world_x = x
    /\ world_y = y
    /\ in_menu = FALSE
    /\ spaces = load_spaces(f)
    /\ file = f
    /\ char_cache = <<>>
    /\ last_player = <<0, 0>>
    /\ fuel = 0
    /\ fuel_collected = {}
    /\ active = cfg
    /\ original_get_char = IF cfg["GraphClassifierPlugin"] THEN "original" ELSE None
    /\ get_char_at = IF cfg["GraphClassifierPlugin"] THEN "classifier" ELSE "original"
    /\ snakes = <<>>
    /\ rng = StartRng
    /\ draws = 0
    /\ gradients = [e \in Engines |-> <<>>]
    /\ seed = DefaultSeed
    /\ height_map = <<>>
    /\ poly_last = NoAttr
    /\ min_height = lo
    /\ max_height = hi
    /\ hash_seed = hs
    /\ lastErased = NoCell
    /\ erasedSinceClear = FALSE
    /\ lastHeight = NoHeight
    /\ lastGlyph = NoGlyph

\* values the process start draws the string-hash key from
HashSeeds == {1, 2}

\* plugins.json of a session without the 3D view
GameConfigs ==
    {cfg \in [PluginNames -> BOOLEAN] :
        ~cfg["GUI3DPlugin"] /\ ~cfg["Polygraph3DPlugin"]}

Init ==
    /\ \E cfg \in GameConfigs, c \in Cells, hs \in HashSeeds :
           Start(cfg, Missing, c[1], c[2], DefaultMinHeight, DefaultMaxHeight, hs)
    /\ probe = NoProbe

\* the process ends and the game is started again: plugins.json,
\* last_location.json and polygraph_3d_settings.json bring back the
\* configuration, the viewpoint and the height settings, spaces.json the
\* overlay; the new process keys its string hash with hs
Restart(hs) ==
    /\ world_x' = world_x
    /\ world_y' = world_y
    /\ in_menu' = FALSE
    /\ spaces' = load_spaces(file)
    /\ file' = file
    /\ char_cache' = <<>>
    /\ last_player' = <<0, 0>>
    /\ fuel' = 0
    /\ fuel_collected' = {}
    /\ active' = active
    /\ original_get_char' = IF active["GraphClassifierPlugin"] THEN "original" ELSE None
    /\ get_char_at' = IF active["GraphClassifierPlugin"] THEN "classifier" ELSE "original"
    /\ snakes' = <<>>
    /\ rng' = StartRng
    /\ draws' = 0
    /\ gradients' = [e \in Engines |-> <<>>]
    /\ seed' = DefaultSeed
    /\ height_map' = <<>>
    /\ poly_last' = NoAttr
    /\ UNCHANGED polySettings
    /\ hash_seed' = hs
    /\ probe' = probe
    /\ lastErased' = NoCell
    /\ NoHeightRead
    /\ NoClassify
    /\ Track

Steps == {d \in (-MaxStep..MaxStep) \X (-MaxStep..MaxStep) : d # <<0, 0>>}

\* the step d keeps the viewpoint among the cells of `arena`
Visits(arena, d) == <<world_x + d[1], world_y + d[2]>> \in arena

Next ==
    \/ HandleInputSpace
    \/ HandleInputEsc
    \/ MenuResume
    \/ ToggleGraphClassifier
    \/ ToggleSnake
    \/ \E d \in Steps : Visits(Cells, d) /\ HandleMovement(d[1], d[2])
    \/ \E c \in Cells : RenderRead(c[1], c[2])
    \/ TrySpawnSnake
    \/ \E i \in 1..MaxSnakes : SnakeUpdate(i)
    \/ OtherDraw
    \/ \E hs \in HashSeeds : Restart(hs)

Spec == Init /\ [][Next]_vars

-----------------------------------------------------------------------------
(* The session with the 3D view: heights *)

\* a step that takes the viewpoint past the threshold of the height cache
Far == HeightThreshold + 2

\* the cells the viewpoint visits: two cells Far apart, and one cell in the
\* region of each other height generator
HeightCells ==
    {<<6, -2>>, <<6 + Far, -2>>, <<-600, 0>>, <<810, 820>>, <<-800, -800>>,
     <<0, 600>>, <<-300, 700>>}

\* the settings the menu is left with
HeightSettings == {<<-10, 10>>, <<0, 1>>}

HeightSteps == {<<0, 0>>, <<Far, 0>>, <<-Far, 0>>}

\* plugins.json of a session with the 3D view
HeightConfigs ==
    {cfg \in [PluginNames -> BOOLEAN] :
        cfg["GUI3DPlugin"] /\ ~cfg["SnakePlugin"] /\ ~cfg["GraphClassifierPlugin"]}

HeightInit ==
    /\ \E cfg \in HeightConfigs, c \in HeightCells, hs \in HashSeeds :
           Start(cfg, Missing, c[1], c[2], DefaultMinHeight, DefaultMaxHeight, hs)
    /\ probe = NoProbe

HeightNext ==
    \/ HandleInputSpace
    \/ HandleInputEsc
    \/ MenuResume
    \/ TogglePolygraph
    \/ \E st \in HeightSettings : ApplyHeightSettings(st[1], st[2])
    \/ \E d \in HeightSteps : Visits(HeightCells, d) /\ HandleMovement(d[1], d[2])
    \/ \E c \in HeightCells : PolygraphMapCell(c[1], c[2])
    \/ \E c \in HeightCells : Gui3dMapCell(c[1], c[2])
    \/ \E hs \in HashSeeds : Restart(hs)

HeightSpec == HeightInit /\ [][HeightNext]_vars

-----------------------------------------------------------------------------
(* Two engines in one process: GraphClassifier(s) constructed twice, then  *)
(* queried in any order while other code draws from `random`               *)

\* the coordinates the engines are asked to classify
Probes == {<<810, 820>>, <<760, 450>>, <<6, -2>>}

\* `random` right after GraphClassifier(s) is constructed
BuiltRng(s) == DrawState(s, ClassifierDraws)

ClassifierInit ==
    /\ \E s \in Seeds : seed = s /\ rng = BuiltRng(s)
    /\ world_x = 0
    /\ world_y = 0
    /\ in_menu = FALSE
    /\ spaces = <<>>
    /\ file = Missing
    /\ char_cache = <<>>
    /\ last_player = <<0, 0>>
    /\ fuel = 0
    /\ fuel_collected = {}
    /\ active = [p \in PluginNames |-> FALSE]
    /\ original_get_char = None
    /\ get_char_at = "original"
    /\ snakes = <<>>
    /\ draws = 0
    /\ gradients = [e \in Engines |-> <<>>]
    /\ height_map = <<>>
    /\ poly_last = NoAttr
    /\ min_height = DefaultMinHeight
    /\ max_height = DefaultMaxHeight
    /\ hash_seed \in HashSeeds
    /\ probe = NoProbe
    /\ lastErased = NoCell
    /\ erasedSinceClear = FALSE
    /\ lastHeight = NoHeight
    /\ lastGlyph = NoGlyph

\* engine e is asked classify(x, y)
Answered(e, r, x, y) ==
    /\ gradients' = [gradients EXCEPT ![e] = r.st.lazy]
    /\ rng' = r.st.rng
    /\ lastGlyph' = [kind |-> "value", engine |-> e, cell |-> <<x, y>>, char |-> r.char]

Classify(e, x, y) ==
    /\ Answered(e, classify(seed, [lazy |-> gradients[e], rng |-> rng], x, y), x, y)
    /\ UNCHANGED <<world_x, world_y, in_menu, spaces, file, char_cache, last_player,
                   fuel, fuel_collected, active, original_get_char, get_char_at,
                   snakes, draws, seed, polyCache, polySettings, hash_seed, probe,
                   lastErased, erasedSinceClear, lastHeight>>

\* engine e is constructed again with the same seed: GraphClassifier.__init__
\* seeds `random` and draws the engine's tables from it
Construct(e) ==
    /\ rng' = BuiltRng(seed)
    /\ gradients' = [gradients EXCEPT ![e] = <<>>]
    /\ NoClassify
    /\ UNCHANGED <<world_x, world_y, in_menu, spaces, file, char_cache, last_player,
                   fuel, fuel_collected, active, original_get_char, get_char_at,
                   snakes, draws, seed, polyCache, polySettings, hash_seed, probe,
                   lastErased, erasedSinceClear, lastHeight>>

ClassifierNext ==
    \/ \E e \in Engines, c \in Probes : Classify(e, c[1], c[2])
    \/ \E e \in Engines : Construct(e)
    \/ OtherDraw

ClassifierSpec == ClassifierInit /\ [][ClassifierNext]_vars

-----------------------------------------------------------------------------
(* The session started on any spaces.json *)

\* spaces.json as the game finds it: absent, not JSON, or written by an
\* earlier session that erased one cell
Files ==
    {Missing, Corrupt} \cup
    {save_spaces(Put(<<>>, get_space_key(c[1], c[2]), Tuple(c[1], c[2]))) : c \in Cells}

LoadInit ==
    /\ \E cfg \in GameConfigs, c \in Cells, hs \in HashSeeds, f \in Files :
           Start(cfg, f, c[1], c[2], DefaultMinHeight, DefaultMaxHeight, hs)
    /\ probe = NoProbe

LoadNext ==
    \/ HandleInputSpace
    \/ \E d \in Steps : Visits(Cells, d) /\ HandleMovement(d[1], d[2])
    \/ \E c \in Cells : RenderRead(c[1], c[2])
    \/ \E hs \in HashSeeds : Restart(hs)

LoadSpec == LoadInit /\ [][LoadNext]_vars

-----------------------------------------------------------------------------
(* The session with the 3D view: the viewpoint moves along both axes *)

\* a step of Near cells on each axis stays within the threshold on both
Near == HeightThreshold - 2

\* the cells the viewpoint visits: cells Far apart along either axis and a
\* cell Near away on both axes
DriftCells == {<<6, -2>>, <<6 + Far, -2>>, <<6, Far - 2>>, <<6 + Near, Near - 2>>}

DriftSteps ==
    {<<0, 0>>, <<Far, 0>>, <<-Far, 0>>, <<0, Far>>, <<0, -Far>>,
     <<Near, Near>>, <<-Near, -Near>>}

DriftInit ==
    /\ \E cfg \in HeightConfigs, c \in DriftCells :
           Start(cfg, Missing, c[1], c[2], DefaultMinHeight, DefaultMaxHeight, 1)
    /\ probe = NoProbe

DriftNext ==
    \/ HandleInputEsc
    \/ MenuResume
    \/ TogglePolygraph
    \/ \E d \in DriftSteps : Visits(DriftCells, d) /\ HandleMovement(d[1], d[2])
    \/ \E c \in DriftCells : PolygraphMapCell(c[1], c[2])

DriftSpec == DriftInit /\ [][DriftNext]_vars

-----------------------------------------------------------------------------
(* Functions applied on their own: the game is not running *)

\* the game's variables while a function is applied on its own
Quiet ==
    /\ world_x = 0
    /\ world_y = 0
    /\ in_menu = FALSE
    /\ spaces = <<>>
    /\ file = Missing
    /\ char_cache = <<>>
    /\ last_player = <<0, 0>>
    /\ fuel = 0
    /\ fuel_collected = {}
    /\ active = [p \in PluginNames |-> FALSE]
    /\ original_get_char = None
    /\ get_char_at = "original"
    /\ snakes = <<>>
    /\ rng = StartRng
    /\ draws = 0
    /\ gradients = [e \in Engines |-> <<>>]
    /\ seed = DefaultSeed
    /\ height_map = <<>>
    /\ poly_last = NoAttr
    /\ min_height = DefaultMinHeight
    /\ max_height = DefaultMaxHeight
    /\ hash_seed = 1
    /\ lastErased = NoCell
    /\ erasedSinceClear = FALSE
    /\ lastHeight = NoHeight
    /\ lastGlyph = NoGlyph

Pure ==
    UNCHANGED <<world_x, world_y, in_menu, spaces, file, char_cache, last_player,
                fuel, fuel_collected, active, original_get_char, get_char_at,
                snakes, rng, draws, gradients, seed, height_map, poly_last,
                min_height, max_height, hash_seed, lastErased, erasedSinceClear,
                lastHeight, lastGlyph>>

-----------------------------------------------------------------------------
(* get_region over any layout of region centres *)

\* number of centres in a layout
LayoutLen == 3

\* the coordinates centres and query points take
Points == {-1, 0, 1} \X {-1, 0, 1}

\* self.region_centers: every list of LayoutLen centres
Layouts == [1..LayoutLen -> Points]

RegionInit ==
    /\ Quiet
    /\ \E l \in Layouts : probe = [layout |-> l, cell |-> <<0, 0>>, region |-> -1]

\* get_region(x, y) of an engine whose region_centers is probe.layout
AskRegion(x, y) ==
    /\ probe' = [probe EXCEPT !.cell = <<x, y>>,
                              !.region = NearestFrom(probe.layout, x, y, 1, 0, -1)]
    /\ Pure

RegionNext == \E c \in Points : AskRegion(c[1], c[2])

RegionSpec == RegionInit /\ [][RegionNext]_vars

-----------------------------------------------------------------------------
(* classify and get_height of a freshly built engine: dispatch and fold *)

\* raw generator values the fold is applied to reach from -RawReach to RawReach
RawReach == 150

\* self.classifiers, in order
GlyphKinds == <<"perlin", "sine", "automaton", "voronoi", "fractal">>

\* self.height_classifiers, in order
HeightKinds == <<"perlin", "sine", "voronoi", "fractal", "terrain">>

\* one cell in a region of each glyph generator, for DefaultSeed
DispatchCells ==
    {<<810, 820>>, <<-800, -800>>, <<760, 450>>, <<6, -2>>, <<-300, 700>>}

\* the engine state of a freshly built GraphClassifier(s)
Fresh(s) == [lazy |-> <<>>, rng |-> BuiltRng(s)]

DispatchInit ==
    /\ Quiet
    /\ \E s \in Seeds :
           probe = [op |-> "none", s |-> s, cell |-> <<0, 0>>, region |-> 0,
                    raw |-> 0, char |-> 0, gkind |-> "none", hkind |-> "none"]

\* classify(x, y) and get_height(x, y) of engines built with seed probe.s:
\* the region, the generator each path selects, the raw glyph value and
\* the glyph code
Dispatch(x, y) ==
    /\ probe' = [op |-> "classify", s |-> probe.s, cell |-> <<x, y>>,
                 region |-> get_region(probe.s, x, y),
                 raw |-> Classifier(probe.s, Fresh(probe.s),
                                    get_region(probe.s, x, y) % ClassifierCount,
                                    x, y).value,
                 char |-> classify(probe.s, Fresh(probe.s), x, y).char,
                 gkind |-> GlyphKinds[(get_region(probe.s, x, y) % ClassifierCount) + 1],
                 hkind |-> HeightKinds[(get_region(probe.s, x, y)
                                            % HeightClassifierCount) + 1]]
    /\ Pure

\* the last line of classify applied to the raw value v
Fold(v) ==
    /\ probe' = [op |-> "fold", s |-> probe.s, cell |-> <<0, 0>>, region |-> 0,
                 raw |-> v, char |-> Printable([value |-> v, st |-> Fresh(probe.s)]).char,
                 gkind |-> "none", hkind |-> "none"]
    /\ Pure

DispatchNext ==
    \/ \E c \in DispatchCells : Dispatch(c[1], c[2])
    \/ \E v \in (-RawReach)..RawReach : Fold(v)

DispatchSpec == DispatchInit /\ [][DispatchNext]_vars

-----------------------------------------------------------------------------
(* get_height of a plugin whose cache is empty, near and far from the      *)
(* terrain features                                                        *)

\* coordinates on a lattice that reaches past every feature
Lattice == {-2000, -1200, -400, 400, 1200, 2000}

TerrainCells == Lattice \X Lattice

TerrainInit ==
    /\ Quiet
    /\ \E hs \in HashSeeds, st \in HeightSettings :
           probe = [op |-> "none", hs |-> hs, lo |-> st[1], hi |-> st[2],
                    cell |-> <<0, 0>>, region |-> 0, terrain |-> 0, height |-> 0,
                    raised |-> FALSE]

\* Polygraph3DPlugin.get_height(x, y) with an empty height_map, and what
\* terrain_height_classifier returns for the same cell
AskHeight(x, y) ==
    /\ probe' = [probe EXCEPT
                    !.op = "height",
                    !.cell = <<x, y>>,
                    !.region = get_region(seed, x, y),
                    !.terrain = terrain_height_classifier(seed, x, y).value,
                    !.height = get_height(<<>>, PolyState, probe.hs, probe.lo,
                                          probe.hi, x, y).value,
                    !.raised = get_height(<<>>, PolyState, probe.hs, probe.lo,
                                          probe.hi, x, y).raised]
    /\ Pure

TerrainNext == \E c \in TerrainCells : AskHeight(c[1], c[2])

TerrainSpec == TerrainInit /\ [][TerrainNext]_vars

-----------------------------------------------------------------------------
(* Two threads inside GraphClassifier.dot_grid_gradient on one engine: a   *)
(* step is what one thread does without the interpreter switching threads  *)

Threads == {"render", "visual"}

\* grid cells the constructor's double loop leaves out
RaceCells == {<<GridHigh, 0>>, <<GridHigh, 1>>}

\* no call of dot_grid_gradient is in progress
Idle ==
    [cell |-> NoCell, fresh |-> FALSE,
     pc |-> [t \in Threads |-> "done"],
     vec |-> [t \in Threads |-> <<0, 0>>],
     gradient |-> [t \in Threads |-> <<0, 0>>]]

RaceInit ==
    /\ \E s \in Seeds : seed = s /\ rng = BuiltRng(s)
    /\ world_x = 0
    /\ world_y = 0
    /\ in_menu = FALSE
    /\ spaces = <<>>
    /\ file = Missing
    /\ char_cache = <<>>
    /\ last_player = <<0, 0>>
    /\ fuel = 0
    /\ fuel_collected = {}
    /\ active = [p \in PluginNames |-> FALSE]
    /\ original_get_char = None
    /\ get_char_at = "original"
    /\ snakes = <<>>
    /\ draws = 0
    /\ gradients = [e \in Engines |-> <<>>]
    /\ height_map = <<>>
    /\ poly_last = NoAttr
    /\ min_height = DefaultMinHeight
    /\ max_height = DefaultMaxHeight
    /\ hash_seed \in HashSeeds
    /\ probe = Idle
    /\ lastErased = NoCell
    /\ erasedSinceClear = FALSE
    /\ lastHeight = NoHeight
    /\ lastGlyph = NoGlyph

\* what no step of dot_grid_gradient touches
RaceFrame ==
    UNCHANGED <<world_x, world_y, in_menu, spaces, file, char_cache, last_player,
                fuel, fuel_collected, active, original_get_char, get_char_at,
                snakes, draws, seed, height_map, poly_last, min_height,
                max_height, hash_seed, lastErased, erasedSinceClear, lastHeight,
                lastGlyph>>

\* both threads enter dot_grid_gradient(ix, iy, ...) for the same cell
RaceCall(ix, iy) ==
    /\ \A t \in Threads : probe.pc[t] = "done"
    /\ probe' = [Idle EXCEPT !.cell = <<ix, iy>>,
                             !.fresh = ~HasGradient(gradients["gc"], ix, iy),
                             !.pc = [t \in Threads |-> "test"]]
    /\ UNCHANGED <<rng, gradients>>
    /\ RaceFrame

\* if (ix, iy) not in self.gradients
RaceTest(t) ==
    /\ probe.pc[t] = "test"
    /\ probe' = [probe EXCEPT !.pc[t] =
                    IF HasGradient(gradients["gc"], probe.cell[1], probe.cell[2])
                    THEN "read" ELSE "cos"]
    /\ UNCHANGED <<rng, gradients>>
    /\ RaceFrame

\* np.cos(random.random() * 2 * np.pi): the first draw
RaceCos(t) ==
    /\ probe.pc[t] = "cos"
    /\ rng' = RandNext(rng)
    /\ probe' = [probe EXCEPT !.pc[t] = "sin",
                              !.vec[t] = <<CosQuarter(RandQuarter(rng')), 0>>]
    /\ UNCHANGED gradients
    /\ RaceFrame

\* np.sin(random.random() * 2 * np.pi): the second draw
RaceSin(t) ==
    /\ probe.pc[t] = "sin"
    /\ rng' = RandNext(rng)
    /\ probe' = [probe EXCEPT !.pc[t] = "store",
                              !.vec[t] = <<probe.vec[t][1], SinQuarter(RandQuarter(rng'))>>]
    /\ UNCHANGED gradients
    /\ RaceFrame

\* self.gradients[(ix, iy)] = np.array([...])
RaceStore(t) ==
    /\ probe.pc[t] = "store"
    /\ gradients' = [gradients EXCEPT !["gc"] = Put(@, probe.cell, probe.vec[t])]
    /\ probe' = [probe EXCEPT !.pc[t] = "read"]
    /\ UNCHANGED rng
    /\ RaceFrame

\* gradient = self.gradients[(ix, iy)]
RaceRead(t) ==
    /\ probe.pc[t] = "read"
    /\ probe' = [probe EXCEPT !.pc[t] = "done",
                              !.gradient[t] =
                                  GradientAt(seed, gradients["gc"],
                                             probe.cell[1], probe.cell[2])]
    /\ UNCHANGED <<rng, gradients>>
    /\ RaceFrame

RaceNext ==
    \/ \E c \in RaceCells : RaceCall(c[1], c[2])
    \/ \E t \in Threads : RaceTest(t)
    \/ \E t \in Threads : RaceCos(t)
    \/ \E t \in Threads : RaceSin(t)
    \/ \E t \in Threads : RaceStore(t)
    \/ \E t \in Threads : RaceRead(t)

RaceSpec == RaceInit /\ [][RaceNext]_vars

-----------------------------------------------------------------------------
(* A get_height call in progress on a second thread while the game's own   *)
(* thread moves the viewpoint and applies settings: a step is what the     *)
(* reading thread does without the interpreter switching threads           *)

\* plugins.json of a session with the 3D view and its height plugin, and
\* no other plugin
FlightConfigs ==
    {[p \in PluginNames |-> p \in {"GUI3DPlugin", "Polygraph3DPlugin"}]}

\* the cells the viewpoint visits and the second thread asks about: two
\* cells Far apart
FlightCells == {<<6, -2>>, <<6 + Far, -2>>}

FlightSteps == {<<Far, 0>>, <<-Far, 0>>}

\* no get_height call is in progress on the second thread
Resting ==
    [pc |-> "done", cell |-> NoCell, kind |-> "none", value |-> 0,
     old |-> <<>>, lo |-> 0, hi |-> 0]

FlightInit ==
    /\ \E cfg \in FlightConfigs, c \in FlightCells :
           Start(cfg, Missing, c[1], c[2], DefaultMinHeight, DefaultMaxHeight, 1)
    /\ probe = Resting

\* what no step of get_height touches
FlightFrame ==
    UNCHANGED <<world_x, world_y, in_menu, spaces, file, char_cache, last_player,
                fuel, fuel_collected, active, original_get_char, get_char_at,
                snakes, draws, seed, poly_last, min_height, max_height, hash_seed,
                lastErased, erasedSinceClear, lastHeight, lastGlyph>>

\* the call returns or raises: the settings in force are noted
FlightEnd(kind, value) ==
    probe' = [probe EXCEPT !.pc = "done", !.kind = kind, !.value = value,
                           !.lo = min_height, !.hi = max_height]

\* the second thread enters get_height(x, y); the cache as it is now is
\* the old generation
FlightCall(x, y) ==
    /\ probe.pc = "done"
    /\ probe' = [Resting EXCEPT !.pc = "test", !.cell = <<x, y>>, !.old = height_map]
    /\ UNCHANGED <<height_map, rng, gradients>>
    /\ FlightFrame

\* if key in self.height_map
FlightTest ==
    /\ probe.pc = "test"
    /\ probe' = [probe EXCEPT !.pc =
                    IF CacheKey(probe.cell[1], probe.cell[2]) \in DOMAIN height_map
                    THEN "fetch" ELSE "compute"]
    /\ UNCHANGED <<height_map, rng, gradients>>
    /\ FlightFrame

\* return self.height_map[key]: the attribute is read again, and a key the
\* dictionary does not hold raises KeyError
FlightFetch ==
    /\ probe.pc = "fetch"
    /\ IF CacheKey(probe.cell[1], probe.cell[2]) \in DOMAIN height_map
       THEN FlightEnd("value", height_map[CacheKey(probe.cell[1], probe.cell[2])])
       ELSE FlightEnd("raised", 0)
    /\ UNCHANGED <<height_map, rng, gradients>>
    /\ FlightFrame

\* the height computed from the classifier and the settings, not yet stored
FlightComputed(g) ==
    /\ gradients' = [gradients EXCEPT !["poly"] = g.st.lazy]
    /\ rng' = g.st.rng
    /\ IF g.raised
       THEN FlightEnd("raised", 0)
       ELSE probe' = [probe EXCEPT !.pc = "store", !.value = g.value]

\* raw_height = self.classifier.get_height(x, y) ... height += variation
FlightCompute ==
    /\ probe.pc = "compute"
    /\ FlightComputed(get_height(<<>>, PolyState, hash_seed, min_height, max_height,
                                 probe.cell[1], probe.cell[2]))
    /\ UNCHANGED height_map
    /\ FlightFrame

\* self.height_map[key] = height; return height
FlightStore ==
    /\ probe.pc = "store"
    /\ height_map' = Put(height_map, CacheKey(probe.cell[1], probe.cell[2]), probe.value)
    /\ FlightEnd("value", probe.value)
    /\ UNCHANGED <<rng, gradients>>
    /\ FlightFrame

FlightNext ==
    \/ HandleInputEsc
    \/ MenuResume
    \/ \E d \in FlightSteps : Visits(FlightCells, d) /\ HandleMovement(d[1], d[2])
    \/ \E h \in HeightSettings : ApplyHeightSettings(h[1], h[2])
    \/ \E c \in FlightCells : PolygraphMapCell(c[1], c[2])
    \/ \E c \in FlightCells : FlightCall(c[1], c[2])
    \/ FlightTest
    \/ FlightFetch
    \/ FlightCompute
    \/ FlightStore

FlightSpec == FlightInit /\ [][FlightNext]_vars

-----------------------------------------------------------------------------
(* The threads beside the main loop: the 3D render thread, the network     *)
(* server's client handlers, the network client's receiver and the audio   *)
(* analysis thread.  A step is one pass of a thread's loop body            *)

PlayerIds == {"10.0.0.2:4000"}

\* beat intensities the analysis computes, in thousandths
Beats == {1000}

\* what the threads keep: NetworkPlugin.players, NetworkClient.remote_players,
\* AudioPlugin.beat_intensity, and whether the camera has moved the viewpoint
NoNet == [players |-> <<>>, remote_players |-> <<>>, beat_intensity |-> 0,
          camera |-> FALSE]

ThreadsInit ==
    /\ \E cfg \in FlightConfigs, c \in FlightCells :
           Start(cfg, Missing, c[1], c[2], DefaultMinHeight, DefaultMaxHeight, 1)
    /\ probe = NoNet

\* what no thread beside the main loop assigns
ThreadFrame ==
    UNCHANGED <<in_menu, spaces, file, char_cache, last_player, fuel,
                fuel_collected, active, original_get_char, get_char_at, snakes,
                rng, draws, gradients, seed, height_map, poly_last, min_height,
                max_height, hash_seed, lastErased, erasedSinceClear, lastHeight,
                lastGlyph>>

\* a camera move that refreshes the glyph cache as handle_movement does
CameraMoveUpdating(move_x, move_z) ==
    /\ active["GUI3DPlugin"]
    /\ world_x' = world_x + move_x
    /\ world_y' = world_y + move_z
    /\ probe' = [probe EXCEPT !.camera = TRUE]
    /\ char_cache' = update_char_cache(char_cache, last_player,
                                       world_x + move_x, world_y + move_z).cache
    /\ UNCHANGED <<in_menu, spaces, file, last_player, fuel,
                   fuel_collected, active, original_get_char, get_char_at, snakes,
                   rng, draws, gradients, seed, height_map, poly_last, min_height,
                   max_height, hash_seed, lastErased, erasedSinceClear, lastHeight,
                   lastGlyph>>

\* run_gui: handle_camera_movement with a key held, the movement vector
\* being (move_x, move_z)
CameraMove(move_x, move_z) ==
    /\ active["GUI3DPlugin"]
    /\ world_x' = world_x + move_x
    /\ world_y' = world_y + move_z
    /\ probe' = [probe EXCEPT !.camera = TRUE]
    /\ ThreadFrame

\* handle_client: the hello message of a new connection adds the player at
\* the viewpoint
HandlerJoin(id) ==
    /\ id \notin DOMAIN probe.players
    /\ probe' = [probe EXCEPT !.players = Put(@, id, <<world_x, world_y>>)]
    /\ UNCHANGED <<world_x, world_y>>
    /\ ThreadFrame

\* handle_client: a position message
HandlerPosition(id, x, y) ==
    /\ id \in DOMAIN probe.players
    /\ probe' = [probe EXCEPT !.players = Put(@, id, <<x, y>>)]
    /\ UNCHANGED <<world_x, world_y>>
    /\ ThreadFrame

\* handle_client: the connection ends and the player is removed
HandlerLeave(id) ==
    /\ id \in DOMAIN probe.players
    /\ probe' = [probe EXCEPT !.players =
                    [j \in DOMAIN probe.players \ {id} |-> probe.players[j]]]
    /\ UNCHANGED <<world_x, world_y>>
    /\ ThreadFrame

\* receive_updates: a game_state message replaces the remote players
ReceiveUpdates(id, x, y) ==
    /\ probe' = [probe EXCEPT !.remote_players = Put(<<>>, id, <<x, y>>)]
    /\ UNCHANGED <<world_x, world_y>>
    /\ ThreadFrame

\* analyze_audio_thread: one analysis pass
AnalyzeAudio(b) ==
    /\ probe' = [probe EXCEPT !.beat_intensity = b]
    /\ UNCHANGED <<world_x, world_y>>
    /\ ThreadFrame

\* a step of one of the threads beside the main loop
ThreadStep ==
    \/ \E d \in FlightSteps : Visits(FlightCells, d) /\ CameraMove(d[1], d[2])
    \/ \E id \in PlayerIds : HandlerJoin(id)
    \/ \E id \in PlayerIds, c \in FlightCells : HandlerPosition(id, c[1], c[2])
    \/ \E id \in PlayerIds : HandlerLeave(id)
    \/ \E id \in PlayerIds, c \in FlightCells : ReceiveUpdates(id, c[1], c[2])
    \/ \E b \in Beats : AnalyzeAudio(b)

\* a step of the main loop
MainStep ==
    \/ HandleInputSpace
    \/ \E d \in FlightSteps : Visits(FlightCells, d) /\ HandleMovement(d[1], d[2])
    \/ \E c \in FlightCells : RenderRead(c[1], c[2])
    \/ \E c \in FlightCells : PolygraphMapCell(c[1], c[2])

ThreadsNext == MainStep \/ ThreadStep

ThreadsSpec == ThreadsInit /\ [][ThreadsNext]_vars

-----------------------------------------------------------------------------
(* classify and get_height calls in any order on engines that live on *)

\* cells of one gradient-noise region whose grid squares share corners
GradientCells == {<<810, 820>>, <<860, 820>>}

\* engine e is asked get_height(x, y)
EngineHeight(e, r, x, y) ==
    /\ gradients' = [gradients EXCEPT ![e] = r.st.lazy]
    /\ rng' = r.st.rng
    /\ lastHeight' = [NoHeight EXCEPT !.kind = IF r.raised THEN "raised" ELSE "value",
                                      !.cell = <<x, y>>, !.value = r.value]
    /\ UNCHANGED <<world_x, world_y, in_menu, spaces, file, char_cache, last_player,
                   fuel, fuel_collected, active, original_get_char, get_char_at,
                   snakes, draws, seed, polyCache, polySettings, hash_seed, probe,
                   lastErased, erasedSinceClear, lastGlyph>>

GetHeight(e, x, y) ==
    EngineHeight(e, raw_height(seed, [lazy |-> gradients[e], rng |-> rng], x, y), x, y)

GradientNext ==
    \/ \E c \in GradientCells : Classify("poly", c[1], c[2])
    \/ \E c \in GradientCells : GetHeight("poly", c[1], c[2])
    \/ OtherDraw

GradientSpec == ClassifierInit /\ [][GradientNext]_vars

-----------------------------------------------------------------------------
(* cellular_automaton_classifier, one pass of its loop at a time *)

\* arguments on both sides of zero and of the two moduli
AutomatonXs == {-300, -44, 0, 44, 212, 255, 256, 300}

AutomatonYs == {-103, -3, 0, 3, 99, 100, 103, 297}

AutomatonInit ==
    /\ Quiet
    /\ \E s \in Seeds, x \in AutomatonXs, y \in AutomatonYs :
           probe = [s |-> s, x |-> x, y |-> y, pc |-> "loop",
                    state |-> Abs(x) % 256, passes |-> 0]

\* the loop body: state = self.ca_rules[idx]
RuleApplied(s, state) ==
    ca_rules(s, BitXor(BitXor((state * 2) % 256, state), (state \div 2) % 256) % 256)

\* for _ in range(abs(y_int) % 100): one pass
AutomatonPass ==
    /\ probe.pc = "loop"
    /\ probe.passes < Abs(probe.y) % 100
    /\ probe' = [probe EXCEPT !.state = RuleApplied(probe.s, probe.state),
                              !.passes = probe.passes + 1]
    /\ Pure

\* the range is exhausted: return state
AutomatonReturn ==
    /\ probe.pc = "loop"
    /\ probe.passes >= Abs(probe.y) % 100
    /\ probe' = [probe EXCEPT !.pc = "returned"]
    /\ Pure

AutomatonNext == AutomatonPass \/ AutomatonReturn

AutomatonSpec == AutomatonInit /\ [][AutomatonNext]_vars /\ WF_vars(AutomatonNext)

-----------------------------------------------------------------------------
(* GraphClassifierPlugin.activate and deactivate called in any order while *)
(* the game reads, erases and moves                                        *)

\* history: the last two calls made on the plugin
NoCalls == [prev |-> "none", last |-> "none"]

SwapInit ==
    /\ \E cfg \in GameConfigs, c \in Cells, hs \in HashSeeds :
           Start(cfg, Missing, c[1], c[2], DefaultMinHeight, DefaultMaxHeight, hs)
    /\ probe = NoCalls

\* what neither activate nor deactivate assigns
SwapFrame ==
    UNCHANGED <<world_x, world_y, in_menu, spaces, file, char_cache, last_player,
                fuel, fuel_collected, snakes, rng, draws, gradients, seed,
                height_map, poly_last, min_height, max_height, hash_seed,
                lastErased, erasedSinceClear, lastHeight, lastGlyph>>

\* an activate that saves the game's current function on every call
GcActivateOverwriting ==
    /\ active' = [active EXCEPT !["GraphClassifierPlugin"] = TRUE]
    /\ original_get_char' = get_char_at
    /\ get_char_at' = "classifier"
    /\ probe' = [prev |-> probe.last, last |-> "activate"]
    /\ SwapFrame

\* GraphClassifierPlugin.activate
GcActivate ==
    /\ active' = [active EXCEPT !["GraphClassifierPlugin"] = TRUE]
    /\ IF original_get_char = None
       THEN /\ original_get_char' = get_char_at
            /\ get_char_at' = "classifier"
       ELSE UNCHANGED <<original_get_char, get_char_at>>
    /\ probe' = [prev |-> probe.last, last |-> "activate"]
    /\ SwapFrame

\* GraphClassifierPlugin.deactivate
GcDeactivate ==
    /\ active' = [active EXCEPT !["GraphClassifierPlugin"] = FALSE]
    /\ IF original_get_char # None
       THEN /\ get_char_at' = original_get_char
            /\ original_get_char' = None
       ELSE UNCHANGED <<original_get_char, get_char_at>>
    /\ probe' = [prev |-> probe.last, last |-> "deactivate"]
    /\ SwapFrame

SwapNext ==
    \/ GcActivate
    \/ GcDeactivate
    \/ HandleInputSpace
    \/ \E d \in Steps : Visits(Cells, d) /\ HandleMovement(d[1], d[2])
    \/ \E c \in Cells : RenderRead(c[1], c[2])

SwapSpec == SwapInit /\ [][SwapNext]_vars

-----------------------------------------------------------------------------
(* The viewpoint as Python holds it: an int until the 3D camera adds a     *)
(* float to it.  A number is its value in tenths and whether it is a float *)

\* the viewpoint stays within KeyReach cells of the origin
KeyReach == 2

PyInt(v) == [float |-> FALSE, t |-> 10 * v]

PyFloat(t) == [float |-> TRUE, t |-> t]

\* a + b: the sum is a float as soon as one operand is
Plus(a, b) == [float |-> a.float \/ b.float, t |-> a.t + b.t]

\* int(round(a)): ties go to the even neighbour
IntRound(a) ==
    LET q == a.t \div 10
        r == a.t % 10
    IN PyInt(IF r < 5 THEN q
           ELSE IF r > 5 THEN q + 1
           ELSE IF q % 2 = 0 THEN q ELSE q + 1)

\* f"{a}": the digits of an int, and for a float a point and the fraction
\* digit as well
FormatCoord(a) ==
    [minus |-> a.t < 0, digits |-> Abs(a.t) \div 10,
     fraction |-> IF a.float THEN <<Abs(a.t) % 10>> ELSE <<>>]

\* get_space_key(x, y): the digest of the text "x,y"
SpaceKeyOf(x, y) == [md5 |-> <<FormatCoord(x), FormatCoord(y)>>]

\* get_char_at(x, y): floats are rounded to ints before the key is computed
ReadKeyOf(x, y) ==
    SpaceKeyOf(IF x.float THEN IntRound(x) ELSE x, IF y.float THEN IntRound(y) ELSE y)

\* movement vectors of the camera, in tenths: straight ahead, sideways and
\* two oblique headings
CameraVectors == {<<0, -10>>, <<10, 0>>, <<5, -9>>, <<-7, 7>>}

\* no key computed yet
NoKey == [md5 |-> <<>>]

KeyInit ==
    /\ Quiet
    /\ \E x \in -KeyReach..KeyReach, y \in -KeyReach..KeyReach :
           probe = [x |-> PyInt(x), y |-> PyInt(y), op |-> "start",
                    written |-> NoKey, read |-> NoKey]

InKeyReach(a) == a.t >= -10 * KeyReach /\ a.t <= 10 * KeyReach

\* the viewpoint becomes (x, y)
KeyMoved(op, x, y) ==
    /\ InKeyReach(x)
    /\ InKeyReach(y)
    /\ probe' = [x |-> x, y |-> y, op |-> op, written |-> NoKey, read |-> NoKey]
    /\ Pure

\* handle_movement: self.world_x += dx_int
KeyMovement(dx_int, dy_int) ==
    KeyMoved("move", Plus(probe.x, PyInt(dx_int)), Plus(probe.y, PyInt(dy_int)))

\* handle_camera_movement: self.game.world_x += move_x
KeyCamera(move_x, move_z) ==
    KeyMoved("camera", Plus(probe.x, PyFloat(move_x)), Plus(probe.y, PyFloat(move_z)))

\* handle_input, key == ord(' '): the key written, and the key get_char_at
\* computes for the same position
KeyErase ==
    /\ probe' = [probe EXCEPT !.op = "erase",
                              !.written = SpaceKeyOf(probe.x, probe.y),
                              !.read = ReadKeyOf(probe.x, probe.y)]
    /\ Pure

KeyNext ==
    \/ \E d \in Directions : KeyMovement(d[1], d[2])
    \/ \E v \in CameraVectors : KeyCamera(v[1], v[2])
    \/ KeyErase

KeySpec == KeyInit /\ [][KeyNext]_vars

-----------------------------------------------------------------------------
(* The session of the snakes: a snake next to an egg while the player walks *)

EggInit ==
    /\ \E c \in EggCells, hs \in HashSeeds :
           Start([p \in PluginNames |-> p = "SnakePlugin"], Missing, c[1], c[2],
                 DefaultMinHeight, DefaultMaxHeight, hs)
    /\ probe = NoProbe

EggNext ==
    \/ HandleInputSpace
    \/ \E d \in EggSteps : Visits(EggCells, d) /\ HandleMovement(d[1], d[2])
    \/ \E c \in EggCells : RenderRead(c[1], c[2])
    \/ TrySpawnSnake
    \/ \E i \in 1..MaxSnakes : SnakeUpdate(i)
    \/ OtherDraw

EggSpec == EggInit /\ [][EggNext]_vars

-----------------------------------------------------------------------------
(* Two threads moving the viewpoint: `self.world_x += d` is a read of the  *)
(* attribute, an addition and a write, and the interpreter may switch      *)
(* threads between the read and the write                                  *)

\* moves the two threads begin in one run
MoveBudget == 2

\* whole-cell movement vectors of the camera: forward and strafe right at
\* heading 0
CameraSteps == {<<0, -1>>, <<1, 0>>}

Still == [pc |-> "idle", reg |-> 0, d |-> <<0, 0>>]

MoveInit ==
    /\ \E cfg \in FlightConfigs, c \in FlightCells :
           Start(cfg, Missing, c[1], c[2], DefaultMinHeight, DefaultMaxHeight, 1)
    /\ probe = [main |-> Still, render |-> Still, from |-> <<world_x, world_y>>,
                sum |-> <<0, 0>>, moves |-> 0]

\* what the read-modify-write steps leave alone
MoveFrame ==
    UNCHANGED <<in_menu, spaces, file, char_cache, last_player, fuel,
                fuel_collected, active, original_get_char, get_char_at, snakes,
                rng, draws, gradients, seed, height_map, poly_last, min_height,
                max_height, hash_seed, lastErased, erasedSinceClear, lastHeight,
                lastGlyph>>

\* thread t starts a move by d and reads world_x
MoveLoadX(t, d) ==
    /\ probe[t].pc = "idle"
    /\ probe.moves < MoveBudget
    /\ IF t = "main" THEN ~in_menu ELSE active["GUI3DPlugin"]
    /\ probe' = [probe EXCEPT ![t] = [pc |-> "store_x", reg |-> world_x, d |-> d],
                              !.moves = @ + 1]
    /\ UNCHANGED <<world_x, world_y>>
    /\ MoveFrame

\* ... and writes the sum back
MoveStoreX(t) ==
    /\ probe[t].pc = "store_x"
    /\ world_x' = probe[t].reg + probe[t].d[1]
    /\ probe' = [probe EXCEPT ![t].pc = "load_y"]
    /\ UNCHANGED world_y
    /\ MoveFrame

MoveLoadY(t) ==
    /\ probe[t].pc = "load_y"
    /\ probe' = [probe EXCEPT ![t].pc = "store_y", ![t].reg = world_y]
    /\ UNCHANGED <<world_x, world_y>>
    /\ MoveFrame

\* the write of world_y ends the camera's move; the main loop goes on to
\* check_for_fuel
MoveStoreY(t) ==
    /\ probe[t].pc = "store_y"
    /\ world_y' = probe[t].reg + probe[t].d[2]
    /\ probe' = [probe EXCEPT ![t].pc = IF t = "main" THEN "moved" ELSE "idle",
                              !.sum = <<@[1] + probe[t].d[1], @[2] + probe[t].d[2]>>]
    /\ UNCHANGED world_x
    /\ MoveFrame

\* handle_movement after the two assignments: check_for_fuel and
\* update_char_cache at the viewpoint as it is now
MoveRest ==
    /\ probe.main.pc = "moved"
    /\ probe' = [probe EXCEPT !.main.pc = "idle"]
    /\ FuelChecked(check_for_fuel(get_char_at, char_cache, spaces, file, GcState,
                                  world_x, world_y),
                   world_x, world_y)
    /\ PolyUpdated(PolyUpdateCharCache(height_map, poly_last, world_x, world_y))
    /\ UNCHANGED <<world_x, world_y, in_menu, active, original_get_char, get_char_at,
                   snakes, draws, seed, polySettings, hash_seed>>
    /\ NoHeightRead
    /\ Track

MoveNext ==
    \/ \E d \in Directions : MoveLoadX("main", d)
    \/ \E d \in CameraSteps : MoveLoadX("render", d)
    \/ \E t \in {"main", "render"} : MoveStoreX(t)
    \/ \E t \in {"main", "render"} : MoveLoadY(t)
    \/ \E t \in {"main", "render"} : MoveStoreY(t)
    \/ MoveRest

MoveSpec == MoveInit /\ [][MoveNext]_vars

-----------------------------------------------------------------------------
(* NetworkPlugin.players, a dict shared by the main loop and the server's  *)
(* client handlers.  The dict is its array of entries in insertion order,  *)
(* a deleted entry staying in place as a dead slot; an iterator holds the  *)
(* number of live entries it saw when it was made and a position           *)

\* entries the handlers insert in one run (a dict of this size is not resized)
MaxJoins == 3

PruneIds == {"10.0.0.2:4000", "10.0.0.3:4000"}

\* len(self.players)
Used(players) == Cardinality({k \in 1..Len(players) : players[k].live})

Holds(players, id) == \E k \in 1..Len(players) : players[k].live /\ players[k].id = id

\* del self.players[id]
Deleted(players, id) ==
    [k \in 1..Len(players) |->
        IF players[k].id = id THEN [players[k] EXCEPT !.live = FALSE] ELSE players[k]]

PruneInit ==
    /\ Quiet
    /\ probe = [players |-> <<>>, pc |-> "idle", used |-> 0, pos |-> 1,
                to_remove |-> <<>>, raised |-> "none"]

\* handle_client: add_player for a new connection, under the server's lock
JoinPlayer(id) ==
    /\ ~Holds(probe.players, id)
    /\ Len(probe.players) < MaxJoins
    /\ probe' = [probe EXCEPT !.players = Append(@, [id |-> id, live |-> TRUE,
                                                     recent |-> TRUE])]
    /\ Pure

\* ten seconds pass without a message of the player: is_active() turns false
GoStale(id) ==
    /\ \E k \in 1..Len(probe.players) :
           /\ probe.players[k].live
           /\ probe.players[k].id = id
           /\ probe.players[k].recent
           /\ probe' = [probe EXCEPT !.players[k].recent = FALSE]
    /\ Pure

\* handle_client: a position message, update_position under the lock
PositionPlayer(id) ==
    /\ \E k \in 1..Len(probe.players) :
           /\ probe.players[k].live
           /\ probe.players[k].id = id
           /\ ~probe.players[k].recent
           /\ probe' = [probe EXCEPT !.players[k].recent = TRUE]
    /\ Pure

\* handle_client, finally: the connection has ended, the player is deleted
\* under the lock
LeavePlayer(id) ==
    /\ Holds(probe.players, id)
    /\ probe' = [probe EXCEPT !.players = Deleted(@, id)]
    /\ Pure

\* NetworkPlugin.update: to_remove = [] and the iterator of
\* self.players.items()
PruneBegin ==
    /\ probe.pc = "idle"
    /\ probe' = [probe EXCEPT !.pc = "iterating", !.used = Used(probe.players),
                              !.pos = 1, !.to_remove = <<>>]
    /\ Pure

\* one turn of the for loop: the iterator raises if the dict has changed
\* size, ends after the last entry, or yields the next live entry, which is
\* noted if it is not active
PruneIterate ==
    /\ probe.pc = "iterating"
    /\ LET rest == {k \in probe.pos..Len(probe.players) : probe.players[k].live}
           k == CHOOSE j \in rest : \A i \in rest : j <= i
       IN IF Used(probe.players) # probe.used
          THEN probe' = [probe EXCEPT !.pc = "raised", !.raised = "RuntimeError"]
          ELSE IF rest = {}
          THEN probe' = [probe EXCEPT !.pc = "deleting"]
          ELSE probe' = [probe EXCEPT
                            !.pos = k + 1,
                            !.to_remove = IF probe.players[k].recent THEN @
                                          ELSE Append(@, probe.players[k].id)]
    /\ Pure

\* one turn of `for player_id in to_remove: del self.players[player_id]`
PruneDelete ==
    /\ probe.pc = "deleting"
    /\ IF probe.to_remove = <<>>
       THEN probe' = [probe EXCEPT !.pc = "idle"]
       ELSE IF Holds(probe.players, Head(probe.to_remove))
       THEN probe' = [probe EXCEPT !.players = Deleted(@, Head(probe.to_remove)),
                                   !.to_remove = Tail(@)]
       ELSE probe' = [probe EXCEPT !.pc = "raised", !.raised = "KeyError"]
    /\ Pure

PruneNext ==
    \/ \E id \in PruneIds : JoinPlayer(id)
    \/ \E id \in PruneIds : GoStale(id)
    \/ \E id \in PruneIds : PositionPlayer(id)
    \/ \E id \in PruneIds : LeavePlayer(id)
    \/ PruneBegin
    \/ PruneIterate
    \/ PruneDelete

PruneSpec == PruneInit /\ [][PruneNext]_vars

-----------------------------------------------------------------------------
(* Properties of the game *)

\* the glyph a read of cell c returns in the current state
ReadNow(c) ==
    GameGetCharAt(get_char_at, char_cache, spaces, GcState, c[1], c[2]).char

\* the glyph an uncached evaluation (empty char_cache, same overlay) returns
ReadUncached(c) ==
    GameGetCharAt(get_char_at, <<>>, spaces, GcState, c[1], c[2]).char

IsErased(c) == get_space_key(c[1], c[2]) \in DOMAIN spaces

\* C1: overlay precedence.  Every read of an erased cell returns the blank
\* glyph, whatever was cached for the cell before it was erased.
C1_OverlayPrecedence ==
    \A c \in Cells : IsErased(c) => ReadNow(c) = Blank

\* C4: glyph range.  A cell that is not erased reads as a glyph with a
\* code in 33..126, with the GraphClassifier plugin active or not.
C4_GlyphRange ==
    \A c \in Cells : ~IsErased(c) => (ReadNow(c) >= GlyphLow /\ ReadNow(c) <= 126)

\* C6: cache transparency.  While no cell has been erased since the glyph
\* cache was last empty, a read of any cell returns what an uncached
\* evaluation returns at that moment.
C6_CacheTransparency ==
    ~erasedSinceClear => \A c \in Cells : ReadNow(c) = ReadUncached(c)

\* C6 witness: with no erase since the last clear, the cache answers for an
\* erased cell whose generated glyph is not blank (the cell was read after
\* the erase and after the clear).
C6_Witness ==
    /\ ~erasedSinceClear
    /\ get_char_at = "original"
    /\ \E c \in Cells : /\ IsErased(c)
                        /\ LocationId(c[1], c[2]) # Blank
                        /\ CacheKey(c[1], c[2]) \in DOMAIN char_cache

\* C7: a mutation invalidates the cache.  Right after a step that erases a
\* cell, char_cache holds no entry for that cell.
C7_EraseInvalidatesCache ==
    lastErased # NoCell => CacheKey(lastErased[1], lastErased[2]) \notin DOMAIN char_cache

\* C9: overlay idempotence.  A step that erases a cell that is already
\* erased leaves the set of erased cells, the persisted file and the glyph
\* cache (hence every later read) as they were.
C9_EraseTwiceIsNoOp ==
    [][(lastErased' # NoCell /\ IsErased(lastErased'))
          => (/\ DOMAIN spaces' = DOMAIN spaces
              /\ file' = file
              /\ char_cache' = char_cache)]_vars

\* C10: every mutation is persisted.  Right after a step that erases a
\* cell, spaces.json holds exactly the overlay in memory.
C10_ErasePersisted ==
    lastErased # NoCell => file = save_spaces(spaces)

-----------------------------------------------------------------------------
(* Properties of the engines *)

\* the glyph an engine constructed with the current seed, and queried
\* before anything else draws from `random`, returns for cell c
FreshGlyph(c) ==
    classify(seed, [lazy |-> <<>>, rng |-> BuiltRng(seed)], c[1], c[2]).char

\* C2: glyph determinism.  Whatever an engine was asked before and whatever
\* was drawn from `random` in between, classify returns for a cell the
\* glyph a second engine constructed with the same seed returns for it.
C2_GlyphDeterminism ==
    lastGlyph.kind = "value" => lastGlyph.char = FreshGlyph(lastGlyph.cell)

\* the height a plugin started in a process whose string hash is keyed by
\* hs returns for cell c as its first read, with the settings lo, hi
FreshHeight(hs, lo, hi, c) ==
    get_height(<<>>, [lazy |-> <<>>, rng |-> StartRng], hs, lo, hi, c[1], c[2]).value

\* C3: height determinism.  A height get_height returns is the height a
\* newly constructed engine returns for the same cell and settings, in this
\* run of the program or in any other.
C3_HeightDeterminism ==
    lastHeight.kind = "value" =>
        \A hs \in HashSeeds :
            lastHeight.value = FreshHeight(hs, lastHeight.lo, lastHeight.hi, lastHeight.cell)

\* C5: height range.  A height get_height returns lies between the
\* min_height and max_height in force.
C5_HeightRange ==
    lastHeight.kind = "value" =>
        /\ lastHeight.value >= 1000 * lastHeight.lo
        /\ lastHeight.value <= 1000 * lastHeight.hi

\* C8: erased cells short-circuit the height read.  get_height called for
\* an erased cell returns zero.
C8_ErasedHeightIsZero ==
    (lastHeight.kind # "none" /\ lastHeight.erased) =>
        (lastHeight.kind = "value" /\ lastHeight.value = 0)


\* C11: erasure never expires.  A cell that is erased is erased after every
\* step, a restart of the game (save, new process, load) included.
C11_ErasureNeverExpires ==
    [][\A k \in DOMAIN spaces : k \in DOMAIN spaces']_vars

\* C12: loading the overlay never fails.  A game started on a missing or
\* unparsable spaces.json starts with the empty overlay, and from there a
\* read returns the generator's glyph and an erase adds its cell and leaves
\* a well-formed file.
C12_LoadNeverFails ==
    /\ (file.state # "json" => spaces = <<>>)
    /\ [][((\E hs \in HashSeeds : Restart(hs)) /\ file.state # "json")
              => spaces' = <<>>]_vars
    /\ [][HandleInputSpace
              => (IsErased(<<world_x, world_y>>)' /\ file'.state = "json")]_vars
    /\ [](spaces = <<>> => \A c \in Cells : ReadNow(c) = ReadUncached(c))

\* the game was started on an unparsable file and a cell has been read
C12_Witness ==
    /\ file.state = "corrupt"
    /\ spaces = <<>>
    /\ char_cache # <<>>

\* squared distance from the probed cell to centre i of the probed layout
ProbeDist(i) ==
    Dist2(probe.cell[1], probe.cell[2], probe.layout[i][1], probe.layout[i][2])

NamedGlyphRaw(k, s, x, y) ==
    CASE k = 0 -> perlin_noise_classifier(s, Fresh(s), x, y).value
      [] k = 1 -> sine_wave_classifier(x, y)
      [] k = 2 -> cellular_automaton_classifier(s, x, y)
      [] k = 3 -> voronoi_classifier(s, x, y)
      [] k = 4 -> fractal_classifier(x, y)

\* C14: glyph dispatch and fold.  classify(x, y) is 33 + (g(x, y) mod 94)
\* where g is the generator at position r mod 5 and r the index of the
\* nearest region centre; the fold of any raw value, negative or not, lies
\* in 33..126.
C14_GlyphDispatchAndFold ==
    /\ probe.op = "classify" =>
          probe.char = 33 + (NamedGlyphRaw(probe.region % 5, probe.s,
                                           probe.cell[1], probe.cell[2]) % 94)
    /\ probe.op # "none" =>
          /\ probe.char = 33 + (probe.raw % 94)
          /\ probe.char >= 33
          /\ probe.char <= 126

\* a negative raw value has been folded
C14_Witness ==
    /\ probe.op = "fold"
    /\ probe.raw < 0
    /\ probe.char \in 33..126

\* C15: height dispatch.  The height path selects among six generators by
\* region index mod 6, and a region whose height generator is one of the
\* five glyph generators uses that same generator on the glyph path.
C15_HeightDispatch ==
    probe.op = "classify" =>
        /\ HeightClassifierCount = 6
        /\ Len(HeightKinds) = 6
        /\ (\E k \in 1..Len(GlyphKinds) : GlyphKinds[k] = probe.hkind)
               => probe.hkind = probe.gkind

\* the larger of the distances along the two axes from the viewpoint
\* <<x, y>> to the reference ref
AxisDistance(x, y, ref) == Max(Abs(x - ref[1]), Abs(y - ref[2]))

C17_NoReadFails ==
    lastHeight.kind # "raised"

\* (x, y) is outside the radius within which the bell b adds to the height
OutsideBell(b, x, y) == Dist2(x, y, b.x, b.y) >= 9 * b.size * b.size

OutsidePlateau(p, x, y) == Dist2(x, y, p.x, p.y) >= 4 * p.size * p.size

\* (x, y), rotated about the centre of the line l, is beyond half its
\* length or beyond its width
OutsideLine(l, x, y) ==
    ~(/\ 2 * Abs((x - l.x) * Cos(Radians(l.angle)) + (y - l.y) * Sin(Radians(l.angle)))
             < 1000 * l.length
      /\ Abs((y - l.y) * Cos(Radians(l.angle)) - (x - l.x) * Sin(Radians(l.angle)))
             < 1000 * l.width)

\* (x, y) is outside the influence of every feature of the engine of seed s
OutsideKernels(s, x, y) ==
    /\ \A i \in 1..MountainCount : OutsideBell(terrain_params(s).mountains[i], x, y)
    /\ \A i \in 1..ValleyCount : OutsideBell(terrain_params(s).valleys[i], x, y)
    /\ \A i \in 1..PlateauCount : OutsidePlateau(terrain_params(s).plateaus[i], x, y)
    /\ \A i \in 1..RidgeCount : OutsideLine(terrain_params(s).ridges[i], x, y)
    /\ \A i \in 1..CanyonCount : OutsideLine(terrain_params(s).canyons[i], x, y)

\* sin(x / 8) * cos(y / 8), in thousandths
Texture(x, y) == TruncDiv(Sin(x * 125) * Cos(y * 125), 1000)

\* C18: terrain locality.  For a cell outside the influence of every
\* mountain, valley, plateau, ridge and canyon, the height read is the
\* texture term sin(x/8) * cos(y/8) alone, a value within [-1, 1].
C18_TerrainLocality ==
    (probe.op = "height" /\ OutsideKernels(seed, probe.cell[1], probe.cell[2])) =>
        /\ ~probe.raised
        /\ probe.height = Texture(probe.cell[1], probe.cell[2])
        /\ Abs(probe.height) <= 1000

\* C19: when two threads ask for the gradient of the same grid cell that is
\* not yet initialised, at the same time, both obtain the same vector and
\* the cell holds that vector afterwards, whichever thread writes first.
C19_GradientFirstWriteRace ==
    (probe.fresh /\ \A t \in Threads : probe.pc[t] = "done") =>
        \A t \in Threads :
            probe.gradient[t] =
                GradientAt(seed, gradients["gc"], probe.cell[1], probe.cell[2])

\* the height a get_height call that ends now computes afresh for cell c
\* under the settings lo, hi
ComputedNow(lo, hi, c) ==
    get_height(<<>>, PolyState, hash_seed, lo, hi, c[1], c[2]).value

\* C20: a bulk invalidation of the height cache that interleaves with a
\* get_height call in progress on another thread never makes the call fail:
\* the call returns the value the old generation of the cache held for the
\* cell, or a value freshly computed under the generation in force when it
\* returns.
C20_InvalidationAgainstRead ==
    (probe.pc = "done" /\ probe.kind # "none") =>
        /\ probe.kind = "value"
        /\ \/ /\ CacheKey(probe.cell[1], probe.cell[2]) \in DOMAIN probe.old
              /\ probe.value = probe.old[CacheKey(probe.cell[1], probe.cell[2])]
           \/ probe.value = ComputedNow(probe.lo, probe.hi, probe.cell)

\* C21: only the main loop mutates engine state.  Every step of the 3D
\* render thread, of the network threads and of the audio analysis thread
\* leaves the overlay, the glyph cache and the height cache unchanged.
C21_OnlyMainMutates ==
    [][ThreadStep => UNCHANGED <<spaces, char_cache, height_map>>]_vars

\* the overlay and both caches hold entries, and the camera, a client
\* handler, the receiver and the audio analysis have all acted
C21_Witness ==
    /\ spaces # <<>>
    /\ char_cache # <<>>
    /\ height_map # <<>>
    /\ probe.camera
    /\ probe.players # <<>>
    /\ probe.remote_players # <<>>
    /\ probe.beat_intensity # 0

\* C22: gradient stability.  Once the gradient map of an engine holds a
\* vector for a grid cell, no later classify or get_height call on that
\* engine changes the vector stored for the cell.
C22_GradientStability ==
    [][\A e \in Engines :
          \A k \in DOMAIN gradients[e] :
              /\ k \in DOMAIN gradients'[e]
              /\ gradients'[e][k] = gradients[e][k]]_vars

\* an engine has answered calls for two grid squares that share corners:
\* the later call found vectors the earlier one had created
C22_Witness ==
    /\ Cardinality(DOMAIN gradients["poly"]) = 6
    /\ lastHeight.kind = "value"
    /\ lastGlyph.kind = "value"

\* C23: the cellular automaton generator starts from |x| mod 256, applies
\* the rule table |y| mod 100 times and returns the final state; it
\* terminates, the result depends only on |x| mod 256, |y| mod 100 and the
\* table, and lies in 0..255.
C23_AutomatonGenerator ==
    /\ [](probe.pc = "returned" =>
            /\ probe.passes = Abs(probe.y) % 100
            /\ probe.state \in 0..255
            /\ probe.state = cellular_automaton_classifier(probe.s, probe.x, probe.y)
            /\ \A x \in AutomatonXs, y \in AutomatonYs :
                   (Abs(x) % 256 = Abs(probe.x) % 256
                    /\ Abs(y) % 100 = Abs(probe.y) % 100) =>
                       cellular_automaton_classifier(probe.s, x, y) = probe.state)
    /\ <>(probe.pc = "returned")

\* a call with a negative x and a y past 100 has returned after three passes
C23_Witness ==
    /\ probe.pc = "returned"
    /\ probe.x = -44
    /\ probe.y = 103
    /\ probe.passes = 3

\* C24: generator swap round trip.  Through every sequence of activate and
\* deactivate calls the game's get_char_at is the classifier-backed function
\* exactly while the plugin is active and the game's original function
\* otherwise, and the saved original is never lost.
C24_SwapRoundTrip ==
    IF active["GraphClassifierPlugin"]
    THEN get_char_at = "classifier" /\ original_get_char = "original"
    ELSE get_char_at = "original" /\ original_get_char = None

\* activate was called twice in a row
C24_Witness ==
    /\ probe.prev = "activate"
    /\ probe.last = "activate"
    /\ get_char_at = "classifier"

BlankForGood(c) ==
    /\ IsErased(c)
    /\ ReadNow(c) = Blank
    /\ OriginalGetCharAt(char_cache, spaces, c[1], c[2]).char = Blank

\* the cells of the overlay
ErasedCells == {spaces[k].v : k \in DOMAIN spaces}

C27_EraseReadSameKey ==
    probe.op = "erase" => probe.written = probe.read

\* C28: an egg is eaten once.  A snake grows, and erases the cell, only when
\* its new head reaches a cell that still shows an egg: the cell is not in
\* the overlay before the step, so no snake grows twice from one coordinate.
C28_EggEatenOnce ==
    [][\A i \in 1..MaxSnakes :
          (/\ SnakeUpdate(i)
           /\ \/ snakes'[i].length > snakes[i].length
              \/ lastErased' # NoCell)
          => /\ lastErased' # NoCell
             /\ LocationId(lastErased'[1], lastErased'[2]) = EggGlyph
             /\ get_space_key(lastErased'[1], lastErased'[2]) \notin DOMAIN spaces]_vars

\* C29: no lost viewpoint update.  When the main loop and the render thread
\* both move the viewpoint, every applied delta takes effect: once both
\* threads are done, world_x and world_y are the initial values plus the sum
\* of all the deltas applied.
C29_NoLostMove ==
    (probe.main.pc = "idle" /\ probe.render.pc = "idle")
        => /\ world_x = probe.from[1] + probe.sum[1]
           /\ world_y = probe.from[2] + probe.sum[2]

\* C30: player-map pruning is race-free.  While the client handlers add and
\* remove entries of the players map, the pruning of NetworkPlugin.update
\* never raises: it never deletes an id a handler has already removed and
\* never iterates the map while a handler changes its size.
C30_PruneNeverRaises ==
    probe.raised = "none"

====
